---- MODULE Spec2Model ----
(***************************************************************************)
(* Real-time alarm/telemetry fan-out and client-side reconciliation of the *)
(* gas-monitor dashboard.                                                  *)
(*                                                                         *)
(* The client keeps its state in a singleton SocketService (socket,        *)
(* listener registries, pending subscriptions, alarm cache), in the        *)
(* AlarmsTab component (alarmsRef, in-flight bulk fetches) and in the      *)
(* AlarmNotification component (alarmsRef, unread counter).  The server    *)
(* keeps the rooms each socket joined.  Every JavaScript function is an    *)
(* operator from a world record w (all the fields below) to the world      *)
(* after the call, so that a handler that calls other functions is one     *)
(* step; the actions are the calls and events of the environment.          *)
(***************************************************************************)
EXTENDS Integers, Sequences, FiniteSets, TLC

VARIABLES
  socket,                \* SocketService.socket: NoSocket (null) or the id of the live socket
  connected,             \* SocketService.connected
  listeners,             \* SocketService.listeners: event kind -> sequence of callbacks
  activeListeners,       \* SocketService.activeListeners: the keys of the Map
  pendingSubscriptions,  \* SocketService.pendingSubscriptions: a Set of strings
  cache,                 \* SocketService.cache
  sockConnected,         \* socket.connected of the live socket
  sockHandlers,          \* handlers installed with socket.on: event -> sequence of handlers
  retired,               \* the socket the service dropped last
  rooms,                 \* server: the rooms the client's socket is a member of
  timers,                \* server: the setTimeout callbacks not yet run
  wire,                  \* the server-to-client events in flight, oldest first
  out,                   \* the client-to-server messages emitted by the last step
  ret,                   \* the value the last on* call returned
  threw,                 \* the last step ended with an uncaught TypeError
  invoked,               \* the callbacks the last inbound push event invoked, in order
  disposers,             \* the disposers callers hold
  now,                   \* Date.now(), in milliseconds
  nextId,                \* number of ids synthesized so far (Date.now() + Math.random())
  tab,                   \* the AlarmsTab component
  notif,                 \* the AlarmNotification component
  busListeners,          \* eventBus.listeners['new-alarm']
  provider,              \* the NotificationProvider component
  router,                \* server: the channel subscriber and what it emitted
  redis,                 \* server: the bus, redisClient and redisSub
  retry,                 \* one call of apiCallWithRetry: its position and locals
  hist                   \* history: the last step and what the properties refer back to

vars == <<socket, connected, listeners, activeListeners, pendingSubscriptions, cache,
          sockConnected, sockHandlers, retired, rooms, timers, wire, out, ret, threw, invoked,
          disposers, now, nextId, tab, notif, busListeners, provider, router, redis,
          retry, hist>>

-----------------------------------------------------------------------------
(* Bounds and input sets *)

NoSocket == 0
LiveSocket == 1
NULL == "null"
UNDEFINED == "undefined"

DeviceIds == {"d1", "d2"}
PlantIds == {"1", "2"}
PlantNames == {"Plant C", "Plant D"}
Callbacks == {"cb1", "cb2"}

ListenerKeys == {"telemetry", "alarm", "alarm_notification", "notification",
                 "_pending_alarm", "_pending_alarm_notification", "_pending_telemetry"}
SocketEvents == {"telemetry", "alarm", "alarm_notification", "notification"}

-----------------------------------------------------------------------------
(* JavaScript helpers *)

\* A value that a JavaScript condition treats as false.
Falsy(s) == s \in {"", NULL, UNDEFINED}

\* String.prototype.startsWith
startsWith(s, p) == Len(s) >= Len(p) /\ SubSeq(s, 1, Len(p)) = p

\* String.prototype.includes
includes(s, p) == \E i \in 1..(Len(s) + 1) :
                     i + Len(p) - 1 <= Len(s) /\ SubSeq(s, i, i + Len(p) - 1) = p

\* String.prototype.replace(p, '') for a prefix p
stripPrefix(s, p) == IF startsWith(s, p) THEN SubSeq(s, Len(p) + 1, Len(s)) ELSE s

\* Array.prototype.indexOf / splice(index, 1): remove the first occurrence of x
RECURSIVE removeFirst(_, _)
removeFirst(seq, x) ==
  IF seq = <<>> THEN <<>>
  ELSE IF Head(seq) = x THEN Tail(seq)
  ELSE <<Head(seq)>> \o removeFirst(Tail(seq), x)

Range(seq) == {seq[i] : i \in 1..Len(seq)}

\* What a call returned: undefined, or a disposer closure over (event, callback, key).
NoReturn == [ev |-> UNDEFINED, cb |-> "", key |-> ""]
Disposer(ev, cb, key) == [ev |-> ev, cb |-> cb, key |-> key]
IsCallable(r) == r.ev # UNDEFINED

\* A handler installed with socket.on: which function installed it, and the
\* callback and device filter its closure captured.
Handler(src, cb, device) == [src |-> src, cb |-> cb, device |-> device]

-----------------------------------------------------------------------------
(* The world record *)

World ==
  [socket |-> socket, connected |-> connected, listeners |-> listeners,
   activeListeners |-> activeListeners, pendingSubscriptions |-> pendingSubscriptions,
   cache |-> cache, sockConnected |-> sockConnected, sockHandlers |-> sockHandlers,
   retired |-> retired,
   rooms |-> rooms, timers |-> timers, wire |-> wire, out |-> {}, ret |-> NoReturn,
   threw |-> FALSE, invoked |-> <<>>, disposers |-> disposers, now |-> now,
   nextId |-> nextId, tab |-> tab, notif |-> notif, busListeners |-> busListeners,
   provider |-> provider, router |-> router, redis |-> redis, retry |-> retry]

Put(w) ==
  /\ socket' = w.socket
  /\ connected' = w.connected
  /\ listeners' = w.listeners
  /\ activeListeners' = w.activeListeners
  /\ pendingSubscriptions' = w.pendingSubscriptions
  /\ cache' = w.cache
  /\ sockConnected' = w.sockConnected
  /\ sockHandlers' = w.sockHandlers
  /\ retired' = w.retired
  /\ rooms' = w.rooms
  /\ timers' = w.timers
  /\ wire' = w.wire
  /\ out' = w.out
  /\ ret' = w.ret
  /\ threw' = w.threw
  /\ invoked' = w.invoked
  /\ disposers' = w.disposers
  /\ now' = w.now
  /\ nextId' = w.nextId
  /\ tab' = w.tab
  /\ notif' = w.notif
  /\ busListeners' = w.busListeners
  /\ provider' = w.provider
  /\ router' = w.router
  /\ redis' = w.redis
  /\ retry' = w.retry

NoHandlers == [e \in SocketEvents |-> <<>>]

\* A socket object the service no longer refers to: whether its transport is
\* open, so that events can still arrive on it, and whether it has handlers.
\* Before any socket was dropped there is none to be open or to have handlers.
Retired(open, handlers) == [open |-> open, handlers |-> handlers]
NoRetired == Retired(FALSE, FALSE)

-----------------------------------------------------------------------------
(* Server: io.on("connection") *)

\* The handlers the server installs on a client socket: "subscribe" and
\* "subscribePlant" join a room; the server has no handler for any other message.
serverOn(rms, ev, arg) ==
  IF ev = "subscribe" THEN rms \cup {"device:" \o arg}
  ELSE IF ev = "subscribePlant" THEN rms \cup {"plant:" \o arg}
  ELSE rms

\* socket.emit(ev, arg) on a connected socket: the server receives the message.
emit(w, ev, arg) ==
  [w EXCEPT !.out = @ \cup {<<ev, arg>>}, !.rooms = serverOn(@, ev, arg)]

\* An event on its way to the client.
Message(ev, data) == [ev |-> ev, data |-> data]

\* The server before any bus message: the number of bus messages received, the
\* one being handled, the emissions made so far, and whether an exception
\* escaped every handler.
NoRouter == [count |-> 0, current |-> 0, emitted |-> <<>>, uncaught |-> FALSE]

\* One emission of the server: the bus message it was made for, its target
\* ("global", "socket" or the name of a room) and the event name.
Emission(msg, target, ev) == [msg |-> msg, target |-> target, ev |-> ev]

logEmit(w, target, ev) ==
  [w EXCEPT !.router.emitted = Append(@, Emission(w.router.current, target, ev))]

\* The event reaches the client's socket.
send(w, ev, data) == [w EXCEPT !.wire = Append(@, Message(ev, data))]

\* io.emit(ev, data): to every connected socket.
ioEmit(w, ev, data) ==
  IF w.socket # NoSocket /\ w.sockConnected
  THEN send(logEmit(w, "global", ev), ev, data)
  ELSE logEmit(w, "global", ev)

\* A router that emits into a room twice.
ioToEmitTwice(w, room, ev, data) ==
  IF room \in w.rooms
  THEN send(send(logEmit(logEmit(w, room, ev), room, ev), ev, data), ev, data)
  ELSE logEmit(logEmit(w, room, ev), room, ev)

\* io.to(room).emit(ev, data): to every socket that joined the room.
ioToEmit(w, room, ev, data) ==
  IF room \in w.rooms
  THEN send(logEmit(w, room, ev), ev, data)
  ELSE logEmit(w, room, ev)

\* Array.from(io.sockets.sockets).forEach(socket => socket.emit(ev, data)):
\* to each connected socket in turn.
socketsEmit(w, ev, data) ==
  IF w.socket # NoSocket /\ w.sockConnected
  THEN send(logEmit(w, "socket", ev), ev, data)
  ELSE w

-----------------------------------------------------------------------------
(* SocketService *)

\* isConnected()
isConnected(w) == w.connected /\ w.socket # NoSocket /\ w.sockConnected

\* A connect() that creates the new socket without the clean-up of the
\* existing one.
connectOver(w) ==
  [w EXCEPT !.retired = IF w.socket # NoSocket THEN Retired(w.sockConnected, TRUE) ELSE @,
            !.socket = LiveSocket,
            !.sockConnected = FALSE,
            !.sockHandlers = NoHandlers,
            !.rooms = {},
            !.wire = <<>>]

\* connect(): tears the existing socket down and creates a new one.  disconnect()
\* on a connected socket fires its 'disconnect' handler (connected = false) before
\* removeAllListeners(); the server drops the old socket from every room.
connect(w) ==
  [w EXCEPT !.connected = IF w.socket # NoSocket /\ w.sockConnected THEN FALSE ELSE @,
            !.retired = IF w.socket # NoSocket THEN Retired(FALSE, FALSE) ELSE @,
            !.socket = LiveSocket,
            !.sockConnected = FALSE,
            !.sockHandlers = NoHandlers,
            !.rooms = {},
            !.wire = <<>>]

\* disconnect(): the socket is closed and dropped with its handlers on.
disconnect(w) ==
  IF w.socket # NoSocket
  THEN [w EXCEPT !.pendingSubscriptions = {},
                 !.retired = Retired(FALSE, TRUE),
                 !.socket = NoSocket,
                 !.sockConnected = FALSE,
                 !.sockHandlers = NoHandlers,
                 !.rooms = {},
                 !.wire = <<>>,
                 !.connected = FALSE]
  ELSE w

\* unsubscribeFromDevice(deviceId)
unsubscribeFromDevice(w, deviceId) ==
  IF Falsy(deviceId) \/ w.socket = NoSocket \/ ~w.connected THEN w
  ELSE [emit(w, "unsubscribe", deviceId) EXCEPT !.pendingSubscriptions = @ \ {deviceId}]

\* unsubscribeFromPlant(plantId)
unsubscribeFromPlant(w, plantId) ==
  IF Falsy(plantId) \/ w.socket = NoSocket \/ ~w.connected THEN w
  ELSE [emit(w, "unsubscribe-plant", plantId)
          EXCEPT !.pendingSubscriptions = @ \ {"plant-" \o plantId}]

\* subscribeToDevice(deviceId)
subscribeToDevice(w, deviceId) ==
  IF Falsy(deviceId) THEN w
  ELSE IF deviceId \in w.pendingSubscriptions THEN w
  ELSE
    LET kept == {sub \in w.pendingSubscriptions :
                   ~(sub # ("plant-" \o w.cache.currentPlant) /\ sub # deviceId)}
        w1 == [w EXCEPT !.pendingSubscriptions = kept \cup {deviceId}]
    IN IF w1.socket = NoSocket \/ ~w1.connected
       THEN connect(w1)
       ELSE emit(w1, "subscribe", deviceId)

\* subscribeToPlant(plantId)
subscribeToPlant(w, plantId) ==
  IF Falsy(plantId) THEN w
  ELSE
    LET plantKey == "plant-" \o plantId
    IN IF plantKey \in w.pendingSubscriptions THEN w
       ELSE
         LET kept == {sub \in w.pendingSubscriptions :
                        ~(startsWith(sub, "plant-") /\ sub # plantKey)}
             w1 == [w EXCEPT !.pendingSubscriptions = kept \cup {plantKey}]
         IN IF w1.socket = NoSocket \/ ~w1.connected
            THEN connect(w1)
            ELSE emit(w1, "subscribe-plant", plantId)

\* removeListener(event, callback)
removeListener(w, event, callback) ==
  [w EXCEPT !.listeners[event] = removeFirst(@, callback)]

\* A removeAllTelemetryListeners() that removes nothing: the registration that
\* C7 rules out.
keepTelemetryListeners(w) == w

\* removeAllTelemetryListeners(): no handler is ever installed for the
\* telemetry_<device> / telemetry-<device> events it also clears.
removeAllTelemetryListeners(w) ==
  IF w.socket # NoSocket
  THEN [w EXCEPT !.sockHandlers["telemetry"] = <<>>,
                 !.activeListeners = @ \ {"telemetry"}]
  ELSE w

\* removeNotificationListeners()
removeNotificationListeners(w) ==
  IF w.socket # NoSocket
  THEN [w EXCEPT !.sockHandlers["notification"] = <<>>,
                 !.activeListeners = @ \ {"notification"}]
  ELSE w

\* onTelemetry(callback, device)
onTelemetry(w, callback, device) ==
  IF w.socket = NoSocket
  THEN [connect(w) EXCEPT !.ret = Disposer("noop", "", "")]
  ELSE
    LET w1 == IF ~isConnected(w) THEN connect(w) ELSE w
        w2 == removeAllTelemetryListeners(w1)
        listenerKey == IF ~Falsy(device) THEN "telemetry-" \o device ELSE "telemetry-global"
    IN [w2 EXCEPT !.activeListeners = @ \cup {listenerKey},
                  !.sockHandlers["telemetry"] =
                      Append(@, Handler("onTelemetry", callback, device)),
                  !.listeners["telemetry"] = Append(@, callback),
                  !.ret = Disposer("telemetry", callback, listenerKey)]

\* onAlarm(callback) and onAlarmNotification(callback): the same code for the
\* event kinds 'alarm' and 'alarm_notification'.
onAlarmKind(w, kind, callback) ==
  IF w.socket = NoSocket
  THEN [connect(w) EXCEPT !.listeners["_pending_" \o kind] = Append(@, callback),
                          !.ret = NoReturn]
  ELSE
    LET w1 == [w EXCEPT !.sockHandlers[kind] = <<Handler("onAlarm", "", "")>>,
                        !.listeners[kind] = <<callback>>,
                        !.ret = Disposer(kind, callback, "")]
    IN IF isConnected(w1)
       THEN emit(w1, "test-connection", kind)
       ELSE w1

onAlarm(w, callback) == onAlarmKind(w, "alarm", callback)

onAlarmNotification(w, callback) == onAlarmKind(w, "alarm_notification", callback)

\* subscribeToNotifications(type = null)
subscribeToNotifications(w) ==
  IF w.socket = NoSocket \/ ~w.connected
  THEN [w EXCEPT !.pendingSubscriptions = @ \cup {"notifications"}]
  ELSE [emit(w, "subscribe-notifications", NULL)
          EXCEPT !.pendingSubscriptions = @ \cup {"notifications"}]

\* onNotification(callback): returns nothing on every path.
onNotification(w, callback) ==
  LET w1 == [w EXCEPT !.listeners["notification"] = Append(@, callback)]
      w2 == IF "notification" \notin w1.activeListeners /\ w1.socket # NoSocket
            THEN [w1 EXCEPT !.sockHandlers["notification"] =
                                Append(@, Handler("onNotification", "", "")),
                            !.activeListeners = @ \cup {"notification"}]
            ELSE w1
  IN [subscribeToNotifications(w2) EXCEPT !.ret = NoReturn]

\* The closure a disposer is: onTelemetry's calls removeListener, forgets its key
\* and then this.socket.off('telemetry'), which throws when this.socket is null;
\* onAlarm's and onAlarmNotification's call removeListener; the dummy does nothing.
\* Calling a returned value that is undefined is a TypeError.
dispose(w, d) ==
  IF ~IsCallable(d) THEN [w EXCEPT !.threw = TRUE]
  ELSE IF d.ev = "noop" THEN w
  ELSE IF d.ev = "telemetry"
  THEN LET w1 == [removeListener(w, "telemetry", d.cb)
                    EXCEPT !.activeListeners = @ \ {d.key}]
       IN IF w1.socket = NoSocket
          THEN [w1 EXCEPT !.threw = TRUE]
          ELSE [w1 EXCEPT !.sockHandlers["telemetry"] = <<>>]
  ELSE removeListener(w, d.ev, d.cb)

\* The 'connect' handler's loop over one pending listener list.
RECURSIVE registerPending(_, _, _)
registerPending(w, eventType, cbs) ==
  IF cbs = <<>> THEN w
  ELSE registerPending(
         IF eventType = "telemetry" THEN onTelemetry(w, Head(cbs), UNDEFINED)
         ELSE onAlarmKind(w, eventType, Head(cbs)),
         eventType, Tail(cbs))

\* The 'connect' handler's loop over the pending subscriptions.
RECURSIVE resubscribe(_, _)
resubscribe(w, subs) ==
  IF subs = {} THEN w
  ELSE LET sub == CHOOSE s \in subs : TRUE
           w1 == IF startsWith(sub, "plant-")
                 THEN emit(w, "subscribe-plant", stripPrefix(sub, "plant-"))
                 ELSE emit(w, "subscribe", sub)
       IN resubscribe(w1, subs \ {sub})

\* One pending listener kind of the 'connect' handler.
processPending(w, eventType) ==
  LET pendingType == "_pending_" \o eventType
  IN IF w.listeners[pendingType] # <<>>
     THEN [registerPending(w, eventType, w.listeners[pendingType])
             EXCEPT !.listeners[pendingType] = <<>>]
     ELSE w

\* socket.on('connect', ...): no connection callback is registered anywhere.
onConnectEvent(w) ==
  LET w1 == [w EXCEPT !.sockConnected = TRUE, !.connected = TRUE]
      w2 == resubscribe(w1, w1.pendingSubscriptions)
      w3 == processPending(w2, "alarm")
      w4 == processPending(w3, "alarm_notification")
      w5 == processPending(w4, "telemetry")
  IN [w5 EXCEPT !.ret = NoReturn]

\* socket.on('disconnect', ...): the transport dropped; the server forgets the
\* socket's rooms, and socket.io reconnects the same socket object later.
onDisconnectEvent(w) ==
  [w EXCEPT !.sockConnected = FALSE, !.connected = FALSE, !.rooms = {},
            !.wire = <<>>]

-----------------------------------------------------------------------------
(* Alarm payloads and records *)

\* JavaScript a || b on ids and timestamps (0 is the absent value) and on strings.
orN(a, b) == IF a # 0 THEN a ELSE b
orS(a, b) == IF a # "" THEN a ELSE b

\* An id made of Date.now() and Math.random(): different from every other id.
synthId(w) == 100 + w.nextId

\* A payload as it arrives in a push event or from the API: every field the
\* handlers read, absent ones 0 or "".
NoData ==
  [_id |-> 0, id |-> 0, alarmId |-> 0, AlarmId |-> 0,
   alarmCode |-> "", AlarmCode |-> "", code |-> "",
   description |-> "", alarmDescription |-> "", AlarmDescription |-> "", message |-> "",
   timestamp |-> 0, createdTimestamp |-> 0, CreatedTimestamp |-> 0,
   deviceId |-> "", DeviceId |-> "", deviceName |-> "", DeviceName |-> "", device |-> "",
   plantName |-> "", PlantName |-> "", plant |-> "", plantId |-> "",
   IsActive |-> UNDEFINED, isActive |-> UNDEFINED, IsRead |-> UNDEFINED,
   isRead |-> UNDEFINED,
   notificationId |-> 0, NotificationId |-> 0, type |-> "", Type |-> "",
   Message |-> "", title |-> "", Title |-> "", PlantId |-> "", desc |-> ""]

\* A record of a client list.
AlarmRecord(id, alarmId, alarmCode, description, ts, deviceId, deviceName, plantName, isActive, isRead, source) ==
  [_id |-> id, AlarmId |-> alarmId, AlarmCode |-> alarmCode,
   AlarmDescription |-> description, CreatedTimestamp |-> ts, DeviceId |-> deviceId,
   DeviceName |-> deviceName, PlantName |-> plantName, IsActive |-> isActive,
   IsRead |-> isRead, Source |-> source]

\* A JSON boolean of a payload: "true", "false", or UNDEFINED when absent.
jsBool(b) == IF b THEN "true" ELSE "false"

\* A list record read as a payload (handleNewAlarm hands its formatted record to
\* addAlarmToCache).
asData(a) ==
  [NoData EXCEPT !._id = a._id, !.AlarmId = a.AlarmId, !.AlarmCode = a.AlarmCode,
                 !.AlarmDescription = a.AlarmDescription,
                 !.CreatedTimestamp = a.CreatedTimestamp, !.DeviceId = a.DeviceId,
                 !.DeviceName = a.DeviceName, !.PlantName = a.PlantName,
                 !.IsActive = jsBool(a.IsActive), !.IsRead = jsBool(a.IsRead)]

\* String.prototype.toLowerCase
lowerChar(c) ==
  LET U == "ABCDEFGHIJKLMNOPQRSTUVWXYZ"
      L == "abcdefghijklmnopqrstuvwxyz"
  IN IF \E i \in 1..26 : SubSeq(U, i, i) = c
     THEN LET i == CHOOSE j \in 1..26 : SubSeq(U, j, j) = c IN SubSeq(L, i, i)
     ELSE c

RECURSIVE toLowerCase(_)
toLowerCase(s) ==
  IF s = "" THEN "" ELSE lowerChar(SubSeq(s, 1, 1)) \o toLowerCase(SubSeq(s, 2, Len(s)))

\* Array.prototype.sort((a, b) => new Date(b.CreatedTimestamp) - new Date(a.CreatedTimestamp)):
\* a stable sort, newest first.
RECURSIVE insertDesc(_, _)
insertDesc(sorted, a) ==
  IF sorted = <<>> THEN <<a>>
  ELSE IF Head(sorted).CreatedTimestamp >= a.CreatedTimestamp
  THEN <<Head(sorted)>> \o insertDesc(Tail(sorted), a)
  ELSE <<a>> \o sorted

RECURSIVE sortDesc(_)
sortDesc(list) ==
  IF list = <<>> THEN <<>>
  ELSE insertDesc(sortDesc(SubSeq(list, 1, Len(list) - 1)), list[Len(list)])

\* Array.prototype.slice(0, n)
slice0(list, n) == SubSeq(list, 1, IF Len(list) < n THEN Len(list) ELSE n)

-----------------------------------------------------------------------------------------------------------------------------------------------------
(* Server: the bus connections *)

\* The server once the module is loaded: the bus is available, redisClient and
\* redisSub (its duplicate) have both started to connect.  sub is "connecting"
\* while redisSub.connect() is pending, "subscribed" once both channels have
\* their handlers, "reconnecting" while the library retries after a drop, and
\* "failed" when redisSub.connect() rejected and the catch block logged it.
StartRedis ==
  [busUp |-> TRUE, clientOpen |-> FALSE, sub |-> "connecting", channels |-> {}]

\* The bus becomes unavailable.  redisSub loses its connection and the library
\* starts to retry as reconnectStrategy says; redisClient closes or retries too.
busDown(w, open) ==
  [w EXCEPT !.redis.busUp = FALSE,
            !.redis.clientOpen = open,
            !.redis.channels = {},
            !.redis.sub = IF @ = "subscribed" THEN "reconnecting" ELSE @]

\* The bus becomes available.
busUp(w) == [w EXCEPT !.redis.busUp = TRUE]

\* await redisClient.connect() of the start-up block.
clientConnect(w) == [w EXCEPT !.redis.clientOpen = w.redis.busUp]

\* The setInterval callback: a ping when redisClient is open, otherwise
\* redisClient.connect().  It reads and changes nothing of redisSub.
probe(w) ==
  IF w.redis.clientOpen THEN w ELSE clientConnect(w)

\* await redisSub.connect() resolved; the two subscribe calls follow.
subscriberConnected(w) ==
  [w EXCEPT !.redis.sub = "subscribed", !.redis.channels = {"telemetry", "alarms"}]

\* await redisSub.connect() rejected: the catch block logs the error and the
\* block ends; no subscribe call is made.
subscriberFailed(w) == [w EXCEPT !.redis.sub = "failed"]

-----
(* Server: the subscriber of the "alarms" channel *)

\* The delay of the notification that follows an alarm.
NotificationDelayMs == 200

\* A delay that depends on the alarm: none for an alarm that names its plant.
notificationDelayByPlant(alarmData) ==
  IF alarmData.plantName # "" THEN 0 ELSE NotificationDelayMs

\* setTimeout(() => {...}, 200): the delay is the same for every alarm.
notificationDelay(alarmData) == NotificationDelayMs

\* redisSub.subscribe("alarms", ...): the alarm goes to every client, to the
\* room of its device and to the room of its plant, and a timer is set for the
\* notification.
alarmsHandler(w, alarmData) ==
  LET deviceId == orS(alarmData.deviceId, alarmData.DeviceId)
      w1 == ioEmit(w, "alarm", alarmData)
      w2 == IF deviceId # ""
            THEN ioToEmit(w1, "device:" \o deviceId, "alarm", alarmData)
            ELSE w1
      plantId == orS(alarmData.plantId,
                     IF alarmData.plantName = "Plant D" THEN "2" ELSE "1")
      w3 == ioToEmit(w2, "plant:" \o plantId, "alarm", alarmData)
  IN [w3 EXCEPT !.timers = Append(@, [due |-> w.now + notificationDelay(alarmData),
                                      alarmData |-> alarmData,
                                      msg |-> w.router.current])]

\* The callback of the i-th timer: the notification goes to every client.  With
\* neither a plant name nor a device id, deviceId.includes throws a TypeError:
\* nothing is emitted and, the callback running outside every try block, the
\* exception is uncaught.
notificationTimeout(w, i) ==
  LET alarmData == w.timers[i].alarmData
      deviceId == orS(alarmData.deviceId, alarmData.DeviceId)
      w1 == [w EXCEPT !.timers = SubSeq(@, 1, i - 1) \o SubSeq(@, i + 1, Len(@)),
                      !.router.current = w.timers[i].msg]
  IN IF orS(alarmData.plantName, alarmData.PlantName) = "" /\ deviceId = ""
     THEN [w1 EXCEPT !.router.uncaught = TRUE]
     ELSE
       LET notificationData ==
             [NoData EXCEPT
                !.id = orN(alarmData._id, orN(alarmData.id, synthId(w))),
                !.deviceId = deviceId,
                !.deviceName = orS(alarmData.deviceName,
                                   orS(alarmData.DeviceName, "Unknown Device")),
                !.plantName = orS(alarmData.plantName,
                                  orS(alarmData.PlantName,
                                      IF includes(deviceId, "esp32_04")
                                      THEN "Plant D" ELSE "Plant C")),
                !.alarmCode = orS(alarmData.alarmCode, orS(alarmData.AlarmCode, "ALARM")),
                !.alarmDescription = orS(alarmData.alarmDescription,
                                         orS(alarmData.AlarmDescription, "New alarm")),
                !.message = orS(alarmData.message, alarmData.Message),
                !.description = orS(alarmData.description,
                                    orS(alarmData.desc,
                                        orS(alarmData.alarmDescription,
                                            alarmData.AlarmDescription))),
                !.createdTimestamp = orN(alarmData.createdTimestamp,
                                         orN(alarmData.CreatedTimestamp, w.now)),
                !.isRead = "false"]
       IN ioEmit([w1 EXCEPT !.nextId = IF orN(alarmData._id, alarmData.id) = 0
                                       THEN @ + 1 ELSE @],
                 "alarm_notification", notificationData)

\* The telemetry texts the bus carries: a device, the specially handled device
\* by id and by name, no field at all, and a truncated text.
TelemetryTexts ==
  {"{\"deviceId\":\"d1\"}", "{\"deviceId\":\"esp32_04\"}",
   "{\"deviceName\":\"ESP32_04\",\"plantName\":\"Plant D\"}", "{}", "{\"deviceId\":"}

\* The alarm texts the bus carries: with a device id, with a plant name only,
\* with neither, for the specially handled device, and a truncated text.
AlarmTexts ==
  {"{\"AlarmCode\":\"HIGH_GAS\",\"DeviceId\":\"d1\"}",
   "{\"alarmCode\":\"LOW_BATT\",\"plantName\":\"Plant D\"}",
   "{\"AlarmCode\":\"HIGH_GAS\"}", "{\"deviceId\":\"esp32_04\"}", "{\"AlarmCode\":"}

\* The texts that are JSON, with the objects they denote.
JsonObjects ==
  ("{\"deviceId\":\"d1\"}" :> [NoData EXCEPT !.deviceId = "d1"])
  @@ ("{\"deviceId\":\"esp32_04\"}" :> [NoData EXCEPT !.deviceId = "esp32_04"])
  @@ ("{\"deviceName\":\"ESP32_04\",\"plantName\":\"Plant D\"}"
        :> [NoData EXCEPT !.deviceName = "ESP32_04", !.plantName = "Plant D"])
  @@ ("{}" :> NoData)
  @@ ("{\"AlarmCode\":\"HIGH_GAS\",\"DeviceId\":\"d1\"}"
        :> [NoData EXCEPT !.AlarmCode = "HIGH_GAS", !.DeviceId = "d1"])
  @@ ("{\"alarmCode\":\"LOW_BATT\",\"plantName\":\"Plant D\"}"
        :> [NoData EXCEPT !.alarmCode = "LOW_BATT", !.plantName = "Plant D"])
  @@ ("{\"AlarmCode\":\"HIGH_GAS\"}" :> [NoData EXCEPT !.AlarmCode = "HIGH_GAS"])
  @@ ("{\"deviceId\":\"d1\",\"plantName\":\"Plant X\"}"
        :> [NoData EXCEPT !.deviceId = "d1", !.plantName = "Plant X"])
  @@ ("{\"deviceId\":\"d1\",\"plantName\":\"Plant C\"}"
        :> [NoData EXCEPT !.deviceId = "d1", !.plantName = "Plant C"])
  @@ ("{\"deviceId\":\"d2\",\"plantId\":\"2\"}"
        :> [NoData EXCEPT !.deviceId = "d2", !.plantId = "2"])

\* JSON.parse(message) returns an object, or throws a SyntaxError.
IsJSON(message) == message \in DOMAIN JsonObjects
JSONparse(message) == JsonObjects[message]

\* `${x}` of a value that may be undefined.
template(x) == IF x = "" THEN UNDEFINED ELSE x

\* The body of the second try block of the "telemetry" subscriber.  The
\* specially handled device goes to every client under several names; any other
\* device goes to its room only.  Then the plant room; deviceName.includes
\* throws when there is neither a plant name nor any device name, and the catch
\* block ends the handler there.
telemetryHandler(w, telemetryData) ==
  LET deviceId == orS(telemetryData.deviceId, telemetryData.device)
      deviceName == orS(telemetryData.deviceName,
                        orS(telemetryData.DeviceName, deviceId))
      isEsp32_04 == \/ deviceId = "esp32_04"
                    \/ includes(toLowerCase(deviceName), "esp32_04")
                    \/ toLowerCase(telemetryData.device) = "esp32_04"
                    \/ toLowerCase(telemetryData.deviceId) = "esp32_04"
      w1 == IF isEsp32_04
            THEN LET a == ioEmit(w, "telemetry", telemetryData)
                     b == ioEmit(a, "telemetry_esp32_04", telemetryData)
                     c == ioToEmit(b, "device:esp32_04", "telemetry-esp32_04",
                                   telemetryData)
                     d == ioEmit(c, "broadcast",
                                 [telemetryData EXCEPT !.type = "esp32_04_data"])
                 IN socketsEmit(d, "telemetry-esp32_04", telemetryData)
            ELSE ioToEmit(w, "device:" \o template(deviceId), "telemetry",
                          telemetryData)
  IN IF telemetryData.plantName = "" /\ deviceName = ""
     THEN w1
     ELSE
       LET plantName == orS(telemetryData.plantName,
                            IF includes(deviceName, "esp32_04")
                            THEN "Plant D" ELSE "Plant C")
           plantId == IF plantName = "Plant D" THEN "2" ELSE "1"
       IN ioToEmit(w1, "plant:" \o plantId, "telemetry", telemetryData)

\* The server starts on the next bus message.
received(w) ==
  [w EXCEPT !.router.count = @ + 1, !.router.current = w.router.count + 1]

\* redisSub.subscribe("telemetry", (message) => ...): a text that is not JSON
\* makes JSON.parse throw in both try blocks, and both catch it.
telemetrySubscriber(w, message) ==
  IF IsJSON(message)
  THEN telemetryHandler(received(w), JSONparse(message))
  ELSE received(w)

\* A subscriber that takes a text that is not JSON for an alarm without fields.
alarmsUnparsed(w, message) ==
  alarmsHandler(received(w), IF IsJSON(message) THEN JSONparse(message) ELSE NoData)

\* redisSub.subscribe("alarms", (message) => ...): JSON.parse is inside the try
\* block of the handler.
alarmsSubscriber(w, message) ==
  IF IsJSON(message)
  THEN alarmsHandler(received(w), JSONparse(message))
  ELSE received(w)

-----------------------------------------------------------------------------
(* SocketService: the alarm cache *)

\* cacheAlarmData(alarmData): the class defines the method twice and the second
\* definition is the one in effect; it ignores an empty array.
cacheAlarmData(w, alarmData) ==
  IF Len(alarmData) > 0
  THEN [w EXCEPT !.cache.alarmData = alarmData,
                 !.cache.alarmsInitialDataLoaded = TRUE,
                 !.cache.lastFetchTime = w.now]
  ELSE w

\* clearAlarmCache(): the second definition, which keeps currentPlant/currentDevice.
clearAlarmCache(w) ==
  [w EXCEPT !.cache.alarmData = <<>>,
            !.cache.alarmsInitialDataLoaded = FALSE,
            !.cache.lastFetchTime = 0]

\* A duplicate test that compares the timestamps only.
cacheHasByTime(alarmData, alarmId, newAlarm) ==
  \E i \in 1..Len(alarmData) :
    newAlarm.timestamp # 0 /\ alarmData[i].CreatedTimestamp = newAlarm.timestamp

\* The duplicate test of addAlarmToCache.
cacheHas(alarmData, alarmId, newAlarm) ==
  \E i \in 1..Len(alarmData) :
    \/ alarmData[i]._id = alarmId
    \/ alarmData[i].AlarmId = alarmId
    \/ (newAlarm.timestamp # 0 /\ alarmData[i].CreatedTimestamp = newAlarm.timestamp)

\* addAlarmToCache(newAlarm)
addAlarmToCache(w, newAlarm) ==
  LET alarmId == orN(newAlarm.id, orN(newAlarm._id, newAlarm.AlarmId))
  IN IF cacheHas(w.cache.alarmData, alarmId, newAlarm) THEN w
     ELSE
       LET formattedAlarm ==
             AlarmRecord(
               orN(alarmId, synthId(w)),
               orN(newAlarm.id, orN(newAlarm.alarmId, newAlarm.AlarmId)),
               orS(newAlarm.alarmCode, newAlarm.AlarmCode),
               orS(newAlarm.description,
                   orS(newAlarm.alarmDescription, newAlarm.AlarmDescription)),
               orN(newAlarm.timestamp,
                   orN(newAlarm.createdTimestamp, orN(newAlarm.CreatedTimestamp, w.now))),
               orS(newAlarm.deviceId, newAlarm.DeviceId),
               orS(newAlarm.deviceName, newAlarm.DeviceName),
               orS(newAlarm.plantName, newAlarm.PlantName),
               TRUE, FALSE, "")
       IN [w EXCEPT !.cache.alarmData = <<formattedAlarm>> \o @,
                    !.nextId = IF alarmId = 0 THEN @ + 1 ELSE @]

\* cacheNotificationData(data = [])
cacheNotificationData(w, data) ==
  [w EXCEPT !.cache.notificationsInitialDataLoaded = TRUE,
            !.cache.notificationData = data,
            !.cache.lastNotificationFetchTime = w.now]

\* A record of the notification cache.
NotificationRecord(id, notificationId, type, message, title, ts, deviceId, deviceName, plantId, plantName) ==
  [_id |-> id, NotificationId |-> notificationId, Type |-> type, Message |-> message,
   Title |-> title, CreatedTimestamp |-> ts, DeviceId |-> deviceId,
   DeviceName |-> deviceName, PlantId |-> plantId, PlantName |-> plantName,
   IsRead |-> FALSE]

\* addNotificationToCache(newNotification)
addNotificationToCache(w, n) ==
  LET notificationId == orN(n.id, orN(n._id, n.NotificationId))
      list == w.cache.notificationData
  IN IF \E i \in 1..Len(list) :
          \/ list[i]._id = notificationId
          \/ list[i].NotificationId = notificationId
          \/ (n.timestamp # 0 /\ list[i].CreatedTimestamp = n.timestamp)
     THEN w
     ELSE
       LET formattedNotification ==
             NotificationRecord(
               orN(notificationId, synthId(w)),
               orN(n.id, orN(n.notificationId, n.NotificationId)),
               orS(n.type, orS(n.Type, "general")),
               orS(n.message, n.Message),
               orS(n.title, n.Title),
               orN(n.timestamp, orN(n.createdTimestamp, orN(n.CreatedTimestamp, w.now))),
               orS(n.deviceId, n.DeviceId),
               orS(n.deviceName, n.DeviceName),
               orS(n.plantId, n.PlantId),
               orS(n.plantName, n.PlantName))
       IN [w EXCEPT !.cache.notificationData = <<formattedNotification>> \o @,
                    !.nextId = IF notificationId = 0 THEN @ + 1 ELSE @]

-----------------------------------------------------------------------------
(* AlarmsTab *)

\* "Within 5 seconds" of the duplicate test.
TabDedupWindowMs == 5000

\* The duplicate test of handleNewAlarm.
tabHas(w, alarmId, alarmData) ==
  \E i \in 1..Len(w.tab.alarmsRef) :
    LET a == w.tab.alarmsRef[i]
    IN \/ a._id = alarmId
       \/ a.AlarmId = alarmId
       \/ (alarmData.timestamp # 0 /\ a.CreatedTimestamp = alarmData.timestamp)
       \/ (alarmData.AlarmCode # "" /\ a.AlarmCode = alarmData.AlarmCode
             /\ a.CreatedTimestamp > w.now - TabDedupWindowMs)

\* handleNewAlarm(alarmData): useCallback(.., []) keeps the function of the first
\* render, so selectedPlant and selectedDevice are the props of the mount
\* (cbPlant, cbDevice).
handleNewAlarm(w, alarmData) ==
  LET alarmPlantName == orS(alarmData.PlantName, alarmData.plantName)
      alarmDeviceName == orS(alarmData.DeviceName, alarmData.deviceName)
      alarmId == orN(alarmData._id,
                     orN(alarmData.id, orN(alarmData.alarmId,
                                           orN(alarmData.AlarmId, synthId(w)))))
  IN IF ~Falsy(w.tab.cbPlant) /\ toLowerCase(alarmPlantName) # toLowerCase(w.tab.cbPlant)
     THEN w
     ELSE IF ~Falsy(w.tab.cbDevice)
               /\ toLowerCase(alarmDeviceName) # toLowerCase(w.tab.cbDevice)
     THEN w
     ELSE IF tabHas(w, alarmId, alarmData) THEN w
     ELSE
       LET formattedAlarm ==
             AlarmRecord(
               alarmId,
               orN(alarmData.id, orN(alarmData.alarmId, orN(alarmData.AlarmId, alarmId))),
               orS(alarmData.alarmCode, orS(alarmData.AlarmCode, alarmData.code)),
               orS(alarmData.description,
                   orS(alarmData.alarmDescription,
                       orS(alarmData.AlarmDescription,
                           orS(alarmData.message, "Unknown alarm")))),
               orN(alarmData.timestamp,
                   orN(alarmData.createdTimestamp, orN(alarmData.CreatedTimestamp, w.now))),
               orS(alarmData.deviceId, alarmData.DeviceId),
               orS(alarmData.deviceName, orS(alarmData.DeviceName, "Unknown Device")),
               orS(alarmData.plantName, alarmData.PlantName),
               TRUE, FALSE, "websocket")
           updatedAlarms == sortDesc(<<formattedAlarm>> \o w.tab.alarmsRef)
           w1 == [w EXCEPT !.tab.alarmsRef = updatedAlarms,
                           !.tab.alarms = updatedAlarms,
                           !.tab.dataSource = "websocket",
                           !.nextId = IF alarmId = synthId(w) THEN @ + 1 ELSE @]
       IN addAlarmToCache(w1, asData(formattedAlarm))

\* typeof x !== 'undefined' ? x : dflt, on a boolean of a payload
boolOr(x, dflt) == IF x # UNDEFINED THEN x = "true" ELSE dflt

\* data.map(alarm => ({...})) of loadAlarmsData: the i-th record of the result.
formatAlarm(w, data, i) ==
  LET alarm == data[i]
      synthesized == Cardinality({j \in 1..(i - 1) : data[j]._id = 0})
  IN AlarmRecord(
       orN(alarm._id, synthId(w) + synthesized),
       orN(alarm.AlarmId, orN(alarm.alarmId, alarm.id)),
       orS(alarm.AlarmCode, alarm.alarmCode),
       orS(alarm.AlarmDescription, orS(alarm.alarmDescription, alarm.description)),
       orN(alarm.CreatedTimestamp, orN(alarm.createdTimestamp, orN(alarm.timestamp, w.now))),
       orS(alarm.DeviceId, alarm.deviceId),
       orS(alarm.DeviceName, orS(alarm.deviceName, "Unknown Device")),
       orS(alarm.PlantName, alarm.plantName),
       boolOr(alarm.IsActive, boolOr(alarm.isActive, TRUE)),
       boolOr(alarm.IsRead, boolOr(alarm.isRead, FALSE)),
       "")

\* One run of loadAlarmsData that is waiting for the API: the selection its
\* closure captured and the isMounted flag of its effect.
Load(plant, device) == [plant |-> plant, device |-> device, isMounted |-> TRUE]

\* The first effect up to the first await of loadAlarmsData: clear the list, then
\* either reuse the cache of the same selection or clear it and call the API.
loadEffect(w) ==
  LET w1 == [w EXCEPT !.tab.alarmsRef = <<>>, !.tab.alarms = <<>>,
                      !.tab.isLoading = TRUE, !.tab.dataSource = "loading",
                      !.tab.error = FALSE]
      useCache == /\ w1.cache.alarmsInitialDataLoaded
                  /\ Len(w1.cache.alarmData) > 0
                  /\ w1.cache.currentPlant = w1.tab.selectedPlant
                  /\ w1.cache.currentDevice = w1.tab.selectedDevice
  IN IF useCache
     THEN [w1 EXCEPT !.tab.alarmsRef = w1.cache.alarmData,
                     !.tab.alarms = w1.cache.alarmData,
                     !.tab.dataSource = "cache",
                     !.tab.isLoading = FALSE]
     ELSE [clearAlarmCache(w1)
             EXCEPT !.cache.currentPlant = w1.tab.selectedPlant,
                    !.cache.currentDevice = w1.tab.selectedDevice,
                    !.tab.fetches = Append(@, Load(w1.tab.selectedPlant,
                                                   w1.tab.selectedDevice))]

\* The cleanup of the first effect: isMounted = false in the closure of its run.
loadCleanup(w) ==
  [w EXCEPT !.tab.fetches = [i \in 1..Len(@) |-> [@[i] EXCEPT !.isMounted = FALSE]]]

\* The API answered the i-th waiting run of loadAlarmsData with data (the
\* alarmService functions return [] on an error, so the catch branch is not taken).
loadAlarmsData(w, i, data) ==
  LET load == w.tab.fetches[i]
      rest == SubSeq(w.tab.fetches, 1, i - 1)
                \o SubSeq(w.tab.fetches, i + 1, Len(w.tab.fetches))
      w1 == [w EXCEPT !.tab.fetches = rest]
  IN IF ~load.isMounted
     THEN [w1 EXCEPT !.nextId = @ + Cardinality({j \in 1..Len(data) : data[j]._id = 0})]
     ELSE IF Len(data) = 0
     THEN [cacheAlarmData(w1, <<>>)
             EXCEPT !.tab.alarmsRef = <<>>, !.tab.alarms = <<>>,
                    !.tab.dataSource = "api", !.tab.isLoading = FALSE]
     ELSE
       LET sortedAlarms == sortDesc([j \in 1..Len(data) |-> formatAlarm(w1, data, j)])
           w2 == [w1 EXCEPT !.tab.alarmsRef = sortedAlarms,
                            !.tab.alarms = sortedAlarms,
                            !.tab.dataSource = "api",
                            !.tab.isLoading = FALSE,
                            !.nextId = @ + Cardinality({j \in 1..Len(data) :
                                                          data[j]._id = 0})]
       IN cacheAlarmData(w2, sortedAlarms)

\* The second effect: connect when the socket is not connected.
connectEffect(w) == IF ~isConnected(w) THEN connect(w) ELSE w

\* The second effect runs again after a render in which isLoading or dataSource
\* differ from the render before (w0 is the world before the handler ran).
rerender(w0, w) ==
  IF w.tab.mounted
       /\ (w.tab.isLoading # w0.tab.isLoading \/ w.tab.dataSource # w0.tab.dataSource)
  THEN connectEffect(w)
  ELSE w

\* The third effect: register handleNewAlarm for both alarm events and keep
\* what the registrations returned.
listenEffect(w) ==
  LET w1 == onAlarm(w, "handleNewAlarm")
      w2 == [w1 EXCEPT !.tab.removeAlarmListener = w1.ret]
      w3 == onAlarmNotification(w2, "handleNewAlarm")
  IN [w3 EXCEPT !.tab.removeAlarmNotificationListener = w3.ret]

\* The cleanup of the third effect calls both returned values; the second call is
\* not reached when the first one throws.
listenCleanup(w) ==
  LET w1 == dispose(w, w.tab.removeAlarmListener)
  IN IF w1.threw THEN w1 ELSE dispose(w1, w.tab.removeAlarmNotificationListener)

\* The component before its first render.
NoTab ==
  [mounted |-> FALSE, selectedPlant |-> "", selectedDevice |-> "", cbPlant |-> "",
   cbDevice |-> "", alarmsRef |-> <<>>, alarms |-> <<>>, isLoading |-> TRUE,
   error |-> FALSE, dataSource |-> "loading", fetches |-> <<>>,
   removeAlarmListener |-> NoReturn, removeAlarmNotificationListener |-> NoReturn]

\* <AlarmsTab selectedPlant selectedDevice /> is mounted: first render, then the
\* effects in the order of the source.
tabMount(w, plant, device) ==
  LET w0 == [w EXCEPT !.tab = [NoTab EXCEPT !.mounted = TRUE,
                                            !.selectedPlant = plant,
                                            !.selectedDevice = device,
                                            !.cbPlant = plant,
                                            !.cbDevice = device,
                                            !.fetches = w.tab.fetches]]
  IN rerender(w0, listenEffect(connectEffect(loadEffect(w0))))

\* The props change while mounted: the cleanups of the first and third effect,
\* then the two effects again.  handleNewAlarm stays the function of the mount.
tabUpdate(w, plant, device) ==
  LET w0 == [w EXCEPT !.tab.selectedPlant = plant, !.tab.selectedDevice = device]
      w1 == listenCleanup(loadCleanup(w0))
  IN rerender(w0, listenEffect(loadEffect(w1)))

\* The component is unmounted: every cleanup runs.
tabUnmount(w) ==
  [listenCleanup(loadCleanup(w)) EXCEPT !.tab.mounted = FALSE]

-----------------------------------------------------------------------------
(* AlarmNotification *)

abs(x) == IF x < 0 THEN -x ELSE x

\* The window of the duplicate test of processAlarm.
NotifDedupWindowMs == 5000

\* The duplicate test of processAlarm.
isDuplicate(list, alarmCode, deviceName, newTimestamp) ==
  \E i \in 1..Len(list) :
    /\ ~(list[i].AlarmCode # alarmCode \/ list[i].DeviceName # deviceName)
    /\ abs(list[i].CreatedTimestamp - newTimestamp) < NotifDedupWindowMs

\* processAlarm(alarmData)
processAlarm(w, alarmData) ==
  LET uniqueId == synthId(w)
      timestamp == orN(alarmData.timestamp,
                       orN(alarmData.createdTimestamp,
                           orN(alarmData.CreatedTimestamp, w.now)))
      alarmCode == orS(alarmData.alarmCode,
                       orS(alarmData.AlarmCode, orS(alarmData.code, "ALARM")))
      deviceName == orS(alarmData.deviceName,
                        orS(alarmData.DeviceName, orS(alarmData.device, "Unknown Device")))
  IN IF isDuplicate(w.notif.alarmsRef, alarmCode, deviceName, timestamp) THEN w
     ELSE
       LET formattedAlarm ==
             AlarmRecord(
               orN(alarmData._id, orN(alarmData.id, uniqueId)),
               orN(alarmData.AlarmId, orN(alarmData.alarmId, orN(alarmData.id, uniqueId))),
               alarmCode,
               orS(alarmData.description,
                   orS(alarmData.AlarmDescription,
                       orS(alarmData.alarmDescription,
                           orS(alarmData.message, "New alarm notification")))),
               timestamp,
               orS(alarmData.deviceId, orS(alarmData.DeviceId, alarmData.device)),
               deviceName,
               orS(alarmData.plantName, orS(alarmData.PlantName, alarmData.plant)),
               TRUE, FALSE, "websocket")
           list == <<formattedAlarm>> \o slice0(w.notif.alarmsRef, 9)
       IN [w EXCEPT !.notif.alarmsRef = list,
                    !.notif.recentAlarms = slice0(list, 5),
                    !.notif.unreadCount = @ + 1,
                    !.notif.isLoading = FALSE,
                    !.nextId = IF orN(alarmData._id, alarmData.id) = 0
                                    \/ orN(alarmData.AlarmId,
                                           orN(alarmData.alarmId, alarmData.id)) = 0
                                 THEN @ + 1 ELSE @]


\* The component before its first render.
NoNotif ==
  [mounted |-> FALSE, alarmsRef |-> <<>>, recentAlarms |-> <<>>, unreadCount |-> 0,
   isLoading |-> FALSE, initialLoadDone |-> FALSE, fetching |-> FALSE]

\* eventBus.on(event, callback) for the 'new-alarm' event
eventBusOn(w, callback) == [w EXCEPT !.busListeners = Append(@, callback)]

\* <AlarmNotification /> is mounted: the initial load starts, the event bus
\* listener is added, and the listener effect connects when not connected,
\* registers handleAlarmData for both alarm events and adds it once more directly
\* on the socket.
notifMount(w) ==
  LET w0 == [w EXCEPT !.notif = [NoNotif EXCEPT !.mounted = TRUE, !.isLoading = TRUE,
                                                !.fetching = TRUE]]
      w1 == eventBusOn(w0, "handleEventBusAlarm")
      w2 == IF ~isConnected(w1) THEN connect(w1) ELSE w1
      w3 == removeListener(removeListener(w2, "alarm", "processAlarm"),
                           "alarm_notification", "processAlarm")
      w4 == onAlarmNotification(onAlarm(w3, "handleAlarmData"), "handleAlarmData")
  IN IF w4.socket # NoSocket
     THEN [w4 EXCEPT !.sockHandlers["alarm"] =
                         Append(@, Handler("direct", "handleAlarmData", ""))]
     ELSE w4

\* fetchInitialAlarms after the API answered with alarms.
fetchInitialAlarms(w, alarms) ==
  LET recentOnes == slice0(alarms, 5)
      formattedAlarms ==
        [i \in 1..Len(recentOnes) |->
           AlarmRecord(recentOnes[i]._id, recentOnes[i].AlarmId,
                       orS(recentOnes[i].AlarmCode, "ALARM"),
                       orS(recentOnes[i].AlarmDescription, "Alarm notification"),
                       recentOnes[i].CreatedTimestamp, recentOnes[i].DeviceId,
                       orS(recentOnes[i].DeviceName, "Unknown Device"),
                       recentOnes[i].PlantName,
                       boolOr(recentOnes[i].IsActive, TRUE),
                       boolOr(recentOnes[i].IsRead, FALSE), "")]
  IN [w EXCEPT !.notif.unreadCount =
                   Cardinality({i \in 1..Len(alarms) : alarms[i].IsRead # "true"}),
               !.notif.alarmsRef = formattedAlarms,
               !.notif.recentAlarms = formattedAlarms,
               !.notif.isLoading = FALSE,
               !.notif.initialLoadDone = TRUE,
               !.notif.fetching = FALSE]

-----------------------------------------------------------------------------
(* NotificationProvider *)

\* The provider before its first render.
NoProvider ==
  [mounted |-> FALSE, notifications |-> <<>>, unreadCount |-> 0, loading |-> TRUE,
   error |-> FALSE, lastUpdated |-> 0]

\* handleNewNotification(notification): the list keeps a notification it
\* already holds out; the unread counter is incremented after either branch.
handleNewNotification(w, notification) ==
  LET prevNotifications == w.provider.notifications
      exists == \E i \in 1..Len(prevNotifications) :
                  \/ prevNotifications[i]._id = notification._id
                  \/ prevNotifications[i].NotificationId = notification.NotificationId
  IN [w EXCEPT !.provider.lastUpdated = w.now,
               !.provider.notifications =
                   IF exists THEN prevNotifications
                   ELSE <<notification>> \o prevNotifications,
               !.provider.unreadCount = @ + 1]

\* <NotificationProvider> is mounted: both fetches start, then connect(),
\* subscribeToNotifications() and onNotification(handleNewNotification).
providerMount(w) ==
  LET w0 == [w EXCEPT !.provider = [NoProvider EXCEPT !.mounted = TRUE,
                                                      !.lastUpdated = w.now]]
      w1 == subscribeToNotifications(connect(w0))
  IN onNotification(w1, "handleNewNotification")

\* fetchNotifications(), at start-up and from the polling interval:
\* getAllNotifications answered with data, or threw.
fetchNotifications(w, data, failed) ==
  [w EXCEPT !.provider.notifications = IF failed THEN <<>> ELSE data,
            !.provider.error = failed,
            !.provider.loading = FALSE]

\* fetchUnreadCount(): getUnreadNotificationsCount answers 0 when it failed.
fetchUnreadCount(w, count) == [w EXCEPT !.provider.unreadCount = count]

-----------------------------------------------------------------------------
(* Inbound push events *)

\* A callback is called with the payload: the component callbacks merge it, the
\* callbacks of other callers only receive it.
invoke(w, cb, data) ==
  LET w1 == [w EXCEPT !.invoked = Append(@, cb)]
  IN IF cb = "handleNewAlarm" THEN handleNewAlarm(w1, data)
     ELSE IF cb \in {"handleAlarmData", "handleEventBusAlarm"} THEN processAlarm(w1, data)
     ELSE IF cb = "handleNewNotification" THEN handleNewNotification(w1, data)
     ELSE w1

\* callbacks.forEach(cb => cb(data)), and eventBus.emit over its listeners
RECURSIVE forEachCallback(_, _, _)
forEachCallback(w, cbs, data) ==
  IF cbs = <<>> THEN w
  ELSE forEachCallback(invoke(w, Head(cbs), data), Tail(cbs), data)

\* A device test that passes the exact device only.
telemetryPassesExact(device, data) ==
  Falsy(device) \/ orS(data.device, orS(data.deviceId, "unknown")) = device

\* The device test of the 'telemetry' handler of onTelemetry.
telemetryPasses(device, data) ==
  LET deviceId == orS(data.device, orS(data.deviceId, "unknown"))
  IN \/ Falsy(device)
     \/ deviceId = device
     \/ includes(deviceId, device)
     \/ includes(device, deviceId)

\* One handler installed with socket.on, run on one inbound event.
runHandler(w, h, ev, data) ==
  IF h.src = "onAlarm"
  THEN LET w1 == addAlarmToCache(w, data)
           w2 == forEachCallback(w1, w1.busListeners, data)
       IN forEachCallback(w2, w2.listeners[ev], data)
  ELSE IF h.src = "onTelemetry"
  THEN IF telemetryPasses(h.device, data) THEN invoke(w, h.cb, data) ELSE w
  ELSE IF h.src = "onNotification"
  THEN LET w1 == addNotificationToCache(w, data)
       IN forEachCallback(w1, w1.listeners["notification"], data)
  ELSE invoke(w, h.cb, data)

RECURSIVE runHandlers(_, _, _, _)
runHandlers(w, hs, ev, data) ==
  IF hs = <<>> THEN w
  ELSE runHandlers(runHandler(w, Head(hs), ev, data), Tail(hs), ev, data)

\* The socket receives event ev with payload data.
deliver(w, ev, data) == runHandlers(w, w.sockHandlers[ev], ev, data)


-----------------------------------------------------------------------------
(* Initial state: the module has been loaded, which constructs the singleton *)
(* and calls connect() once.                                                 *)

NoListeners == [k \in ListenerKeys |-> <<>>]

EmptyCache ==
  [alarmsInitialDataLoaded |-> FALSE, alarmData |-> <<>>,
   notificationsInitialDataLoaded |-> FALSE, notificationData |-> <<>>,
   lastFetchTime |-> 0, lastNotificationFetchTime |-> 0,
   currentPlant |-> NULL, currentDevice |-> NULL]

\* Date.now() at the start, late enough for a record to be older than any window.
StartTime == 10000

NoHist ==
  [lastOp |-> "init",
   wanted |-> {},
   kind |-> "", cb |-> "", device |-> "", live |-> FALSE, repeated |-> FALSE,
   disposed |-> NoReturn, receiving |-> {},
   switchedFrom |-> "", pushedInFlight |-> {},
   published |-> 0, withoutId |-> FALSE, tabBefore |-> 0, cacheBefore |-> 0,
   bus |-> <<>>, latest |-> <<>>, arg |-> <<>>, afterClear |-> FALSE,
   matched |-> FALSE, before |-> <<>>, unavailable |-> FALSE,
   raw |-> <<>>, norm |-> <<>>, replaced |-> FALSE,
   pendingBefore |-> {}, dropped |-> {}, queued |-> {}, readIds |-> {}]

\* No call of apiCallWithRetry is in progress.
NoRetry ==
  [pc |-> "idle", maxRetries |-> 0, attempt |-> 0, calls |-> 0, waited |-> <<>>,
   outcomes |-> <<>>, lastError |-> <<>>, result |-> <<>>]

InitWorld ==
  /\ socket = LiveSocket
  /\ connected = FALSE
  /\ sockConnected = FALSE
  /\ sockHandlers = NoHandlers
  /\ retired = NoRetired
  /\ listeners = NoListeners
  /\ activeListeners = {}
  /\ pendingSubscriptions = {}
  /\ cache = EmptyCache
  /\ rooms = {}
  /\ timers = <<>>
  /\ wire = <<>>
  /\ out = {}
  /\ ret = NoReturn
  /\ threw = FALSE
  /\ invoked = <<>>
  /\ disposers = {}
  /\ now = StartTime
  /\ nextId = 0
  /\ tab = NoTab
  /\ notif = NoNotif
  /\ busListeners = <<>>
  /\ provider = NoProvider
  /\ router = NoRouter
  /\ redis = StartRedis
  /\ retry = NoRetry

InitService == InitWorld /\ hist = NoHist

\* One step: the world after the call, and the history h with the step's name.
Step(w, op, h) == Put(w) /\ hist' = [h EXCEPT !.lastOp = op]

\* The history of a step that is neither a registration nor a disposal: what it
\* kept of the last registration and disposal is forgotten.
Plain ==
  [hist EXCEPT !.kind = "", !.cb = "", !.device = "", !.live = FALSE,
               !.repeated = FALSE, !.disposed = NoReturn, !.receiving = {},
               !.arg = <<>>, !.afterClear = FALSE, !.matched = FALSE, !.before = <<>>,
               !.unavailable = FALSE, !.replaced = FALSE, !.pendingBefore = {},
               !.queued = IF hist.lastOp = "connect" THEN {} ELSE @]

-----------------------------------------------------------------------------
(* Connection events and the subscription calls of the dashboard *)

IsPlantKey(sub) == startsWith(sub, "plant-")

\* subscribeToDevice(d): the caller now wants device d instead of any other device.
CallSubscribeToDevice(d) ==
  Step(subscribeToDevice(World, d), "subscribeToDevice",
       [Plain EXCEPT !.wanted = {sub \in @ : IsPlantKey(sub)} \cup {d}])

\* subscribeToPlant(p): the caller now wants plant p instead of any other plant.
CallSubscribeToPlant(p) ==
  Step(subscribeToPlant(World, p), "subscribeToPlant",
       [Plain EXCEPT !.wanted = {sub \in @ : ~IsPlantKey(sub)} \cup {"plant-" \o p}])

CallUnsubscribeFromDevice(d) ==
  Step(unsubscribeFromDevice(World, d), "unsubscribeFromDevice",
       [Plain EXCEPT !.wanted = @ \ {d}])

CallUnsubscribeFromPlant(p) ==
  Step(unsubscribeFromPlant(World, p), "unsubscribeFromPlant",
       [Plain EXCEPT !.wanted = @ \ {"plant-" \o p}])

\* connect() called from outside the service: the window focus handler, the
\* intervals of the components, the notification provider.
CallConnect ==
  Step(connect(World), "connect()",
       [Plain EXCEPT !.replaced = (socket # NoSocket /\ sockConnected
                                   /\ sockHandlers # NoHandlers)])

\* disconnect() called from outside the service.
CallDisconnect ==
  /\ socket # NoSocket
  /\ Step(disconnect(World), "disconnect()",
          [Plain EXCEPT !.wanted = {}, !.latest = <<>>])

\* The transport connected: the socket fires 'connect'.
EvConnect ==
  /\ socket # NoSocket
  /\ ~sockConnected
  /\ Step(onConnectEvent(World), "connect", Plain)

\* The transport dropped: the socket fires 'disconnect'.
EvDisconnect ==
  /\ socket # NoSocket
  /\ sockConnected
  /\ Step(onDisconnectEvent(World), "disconnect", Plain)

PlantArgs == PlantIds \cup PlantNames

-----------------------------------------------------------------------------
(* The AlarmsTab component in the page *)

\* At most this many runs of loadAlarmsData wait for the API at a time.
MaxFetches == 2

TabPlants == {""} \cup PlantNames
TabDevices == {"", "d1"}

\* The plant the selection moved away from, after a change from one plant to another.
switched(from, to, before) ==
  IF to = "" \/ to = before THEN ""
  ELSE IF from # "" /\ from # to THEN from
  ELSE before

TabMount(p, d) ==
  /\ ~tab.mounted
  /\ Len(tab.fetches) < MaxFetches
  /\ Step(tabMount(World, p, d), "tabMount",
          [Plain EXCEPT !.switchedFrom = switched(tab.selectedPlant, p, @),
                       !.pushedInFlight = {}])

TabUpdate(p, d) ==
  /\ tab.mounted
  /\ <<p, d>> # <<tab.selectedPlant, tab.selectedDevice>>
  /\ Len(tab.fetches) < MaxFetches
  /\ Step(tabUpdate(World, p, d), "tabUpdate",
          [Plain EXCEPT !.switchedFrom = switched(tab.selectedPlant, p, @),
                       !.pushedInFlight = {}])

TabUnmount ==
  /\ tab.mounted
  /\ Step(tabUnmount(World), "tabUnmount", [Plain EXCEPT !.pushedInFlight = {}])

-----------------------------------------------------------------------------
(* Specification of the subscription manager: the dashboard subscribes and     *)
(* unsubscribes, the tab is mounted and its selection changes, the connection *)
(* comes and goes.                                                           *)

InitSub == InitService

NextSub ==
  \/ \E d \in DeviceIds : CallSubscribeToDevice(d)
  \/ \E p \in PlantArgs : CallSubscribeToPlant(p)
  \/ \E d \in DeviceIds : CallUnsubscribeFromDevice(d)
  \/ \E p \in PlantArgs : CallUnsubscribeFromPlant(p)
  \/ \E p \in TabPlants, d \in TabDevices : TabMount(p, d)
  \/ \E p \in TabPlants, d \in TabDevices : TabUpdate(p, d)
  \/ CallConnect
  \/ CallDisconnect
  \/ EvConnect
  \/ EvDisconnect

SpecSub == InitSub /\ [][NextSub]_vars

\* The message the 'connect' handler emits for a pending subscription.
SubscribeMessage(sub) ==
  IF IsPlantKey(sub) THEN <<"subscribe-plant", stripPrefix(sub, "plant-")>>
  ELSE <<"subscribe", sub>>

\* C6: after a 'connect' event, every device and plant subscription that was
\* requested and not since unsubscribed has been emitted to the server again.
C6_ReplayOnConnect ==
  hist.lastOp = "connect" => \A sub \in hist.wanted : SubscribeMessage(sub) \in out

DeviceRooms == {r \in rooms : startsWith(r, "device:")}
PlantRooms == {r \in rooms : startsWith(r, "plant:")}

\* C10: the client's socket is a member of at most one device room and of at
\* most one plant room at any time.
C10_AtMostOneRoom == Cardinality(DeviceRooms) <= 1 /\ Cardinality(PlantRooms) <= 1

\* C11: a subscribeToPlant(p) that reached the server (the client was connected
\* and emitted its message) leaves the socket a member of plant:<p>, and an
\* unsubscribeFromDevice(d) or unsubscribeFromPlant(p) that reached the server
\* leaves the socket outside the room.
C11_RoomsFollowCalls ==
  /\ hist.lastOp = "subscribeToPlant"
       => \A p \in PlantArgs :
            <<"subscribe-plant", p>> \in out => ("plant:" \o p) \in rooms
  /\ hist.lastOp = "unsubscribeFromDevice"
       => \A d \in DeviceIds :
            <<"unsubscribe", d>> \in out => ("device:" \o d) \notin rooms
  /\ hist.lastOp = "unsubscribeFromPlant"
       => \A p \in PlantArgs :
            <<"unsubscribe-plant", p>> \in out => ("plant:" \o p) \notin rooms

-----------------------------------------------------------------------------
(* Specification of the listener registry: callers register callbacks, call  *)
(* the values the registrations returned, and push events arrive.            *)

\* At most this many callbacks in one list of SocketService.listeners, and in
\* one list of callbacks that wait for the socket.
MaxListeners == 2
MaxPending == 1

RegisteredKinds == {"telemetry", "alarm", "alarm_notification"}

\* A push event of kind ev about device d, as the server sends it.
TestEvent(ev, d) ==
  IF ev = "telemetry" THEN [NoData EXCEPT !.device = d]
  ELSE IF ev = "notification" THEN [NoData EXCEPT !.id = 1, !.type = "general"]
  ELSE [NoData EXCEPT !.id = 1, !.AlarmCode = "HIGH_GAS", !.DeviceId = d,
                      !.DeviceName = d, !.CreatedTimestamp = StartTime]

\* How many times the sequence holds x.
Occurrences(seq, x) == Cardinality({i \in 1..Len(seq) : seq[i] = x})

\* The callbacks an event of kind ev would reach now, with the device it is about.
Receivers(w, ev) ==
  {<<c, d>> \in Callbacks \X DeviceIds :
     Occurrences(deliver(w, ev, TestEvent(ev, d)).invoked, c) > 0}

\* Callers hold at most this many returned values at a time.
MaxHeld == 1

\* The caller keeps what the registration returned, to call it on cleanup, or
\* drops it.
keep(w, held) ==
  IF held /\ Cardinality(w.disposers) < MaxHeld
  THEN [w EXCEPT !.disposers = @ \cup {w.ret}]
  ELSE w

\* What the history keeps of a registration: on which kind, of which callback,
\* whether a socket existed and whether it already had a handler of the kind.
registered(kind, cb, device) ==
  [Plain EXCEPT !.kind = kind, !.cb = cb, !.device = device,
                !.live = (socket # NoSocket),
                !.repeated = (socket # NoSocket /\ sockHandlers[kind] # <<>>),
                !.latest = IF socket # NoSocket THEN <<kind, cb, device>> ELSE <<>>]

CallOnTelemetry(cb, device, held) ==
  /\ Len(listeners["telemetry"]) < MaxListeners
  /\ Step(keep(onTelemetry(World, cb, device), held), "onTelemetry",
          registered("telemetry", cb, device))

CallOnAlarm(cb, held) ==
  /\ Len(listeners["_pending_alarm"]) < MaxPending
  /\ Step(keep(onAlarm(World, cb), held), "onAlarm", registered("alarm", cb, ""))

CallOnAlarmNotification(cb, held) ==
  /\ Len(listeners["_pending_alarm_notification"]) < MaxPending
  /\ Step(keep(onAlarmNotification(World, cb), held), "onAlarmNotification",
          registered("alarm_notification", cb, ""))

CallOnNotification(cb, held) ==
  /\ Len(listeners["notification"]) < MaxPending
  /\ Step(keep(onNotification(World, cb), held), "onNotification",
          registered("notification", cb, ""))

\* A caller calls a value a registration returned to it, once.
CallDisposer(d) ==
  /\ d \in disposers
  /\ Step([dispose(World, d) EXCEPT !.disposers = @ \ {d}], "dispose",
          [Plain EXCEPT !.disposed = d,
                       !.receiving = {<<ev, r>> \in SocketEvents \X (Callbacks \X DeviceIds) :
                                        /\ r \in Receivers(World, ev)
                                        /\ ~(ev = d.ev /\ r[1] = d.cb)}])

\* The server pushes one event to the connected socket.
Deliver(ev, d) ==
  /\ socket # NoSocket
  /\ sockConnected
  /\ Step(deliver(World, ev, TestEvent(ev, d)), "deliver", Plain)

InitListen == InitService

NextListen ==
  \/ \E cb \in Callbacks, device \in TabDevices : CallOnTelemetry(cb, device, FALSE)
  \/ \E cb \in Callbacks : CallOnAlarm(cb, FALSE)
  \/ \E cb \in Callbacks : CallOnAlarmNotification(cb, FALSE)
  \/ \E ev \in RegisteredKinds, d \in DeviceIds : Deliver(ev, d)
  \/ CallConnect
  \/ CallDisconnect
  \/ EvConnect
  \/ EvDisconnect

SpecListen == InitListen /\ [][NextListen]_vars

-----------------------------------------------------------------------------
(* Specification of the disposers: callers register, keep what the           *)
(* registration returned and call it later, in every connection state.       *)

NextDispose ==
  \/ \E cb \in Callbacks, held \in BOOLEAN : CallOnTelemetry(cb, "", held)
  \/ \E cb \in Callbacks, held \in BOOLEAN : CallOnAlarm(cb, held)
  \/ \E held \in BOOLEAN : CallOnAlarmNotification("cb1", held)
  \/ \E held \in BOOLEAN : CallOnNotification("cb1", held)
  \/ \E d \in disposers : CallDisposer(d)
  \/ CallConnect
  \/ CallDisconnect
  \/ EvConnect
  \/ EvDisconnect

SpecDispose == InitListen /\ [][NextDispose]_vars

\* C19: while the socket is connected, an event of the kind of the latest
\* registration made on an existing socket (no registration was disposed, and
\* disconnect() was not called since) reaches the registered callback, whatever
\* disconnections, reconnections and connect() calls came in between.
C19_DeliverySurvives ==
  (hist.latest # <<>> /\ socket # NoSocket /\ sockConnected)
    => <<hist.latest[2], IF hist.latest[3] = "" THEN "d1" ELSE hist.latest[3]>>
         \in Receivers(World, hist.latest[1])

OnCalls == {"onTelemetry", "onAlarm", "onAlarmNotification", "onNotification"}

\* The device of an event that passes the filter of the last registration.
PassingDevice == IF Falsy(hist.device) THEN "d1" ELSE hist.device

\* C7: no event kind ever has more than one raw socket handler, and right after
\* onTelemetry, onAlarm or onAlarmNotification was called on an existing socket,
\* for the first time or again, the kind has exactly one raw handler and one
\* event of the kind invokes the callback just registered exactly once.
C7_IdempotentRegistration ==
  /\ \A kind \in RegisteredKinds : Len(sockHandlers[kind]) <= 1
  /\ (hist.lastOp \in OnCalls /\ hist.kind \in RegisteredKinds /\ hist.live)
       => /\ Len(sockHandlers[hist.kind]) = 1
          /\ Occurrences(deliver(World, hist.kind,
                                 TestEvent(hist.kind, PassingDevice)).invoked,
                         hist.cb) = 1

\* C7, reached: a registration repeated on a connected socket that already had
\* a handler of the kind.
C7_Witness ==
  /\ hist.lastOp \in OnCalls
  /\ hist.kind \in RegisteredKinds
  /\ hist.live
  /\ hist.repeated
  /\ sockConnected

\* C8: after a returned disposer was called without failing, every other
\* callback that an event of some kind reached before the call is still
\* reached by it, and the disposed callback is no longer reached.
C8_DisposerFrame ==
  (hist.lastOp = "dispose" /\ ~threw)
    => /\ \A x \in hist.receiving : x[2] \in Receivers(World, x[1])
       /\ (IsCallable(hist.disposed) /\ hist.disposed.ev \in SocketEvents)
            => \A d \in DeviceIds :
                 <<hist.disposed.cb, d>> \notin Receivers(World, hist.disposed.ev)

\* C9: every on* call returns a callable value, and calling a returned value
\* never fails.
C9_ReturnsDisposer ==
  /\ hist.lastOp \in OnCalls => IsCallable(ret)
  /\ hist.lastOp = "dispose" => ~threw

-----------------------------------------------------------------------------
(* Specification of the reconciliation caches: the two components are        *)
(* mounted, the selection changes, bulk loads complete in any order, alarm   *)
(* events are pushed (also repeatedly), time passes.                         *)

\* Lists grow to at most this many records and ids are synthesized at most
\* this many times.
MaxAlarms == 2
MaxSynth == 3

\* The two alarm events the server pushes: one without an id, with the field
\* names of the notification payload and a fresh timestamp; one with an id, with
\* the field names of the stored documents and an older timestamp.
PushNames == {"fresh", "old"}

PushAlarm(name) ==
  IF name = "fresh"
  THEN [NoData EXCEPT !.alarmCode = "HIGH_GAS", !.deviceId = "d1", !.deviceName = "d1",
                      !.plantName = "Plant C", !.createdTimestamp = StartTime]
  ELSE [NoData EXCEPT !.id = 7, !.AlarmCode = "LOW_BATT", !.DeviceId = "d2",
                      !.DeviceName = "d2", !.PlantName = "Plant D",
                      !.CreatedTimestamp = StartTime - 6000]

\* The alarms the database holds, as the API returns them.
StoredAlarms ==
  << [NoData EXCEPT !._id = 1, !.AlarmId = 1, !.AlarmCode = "HIGH_GAS", !.DeviceId = "d1",
                    !.DeviceName = "d1", !.PlantName = "Plant C",
                    !.CreatedTimestamp = StartTime - 1000, !.IsActive = "true",
                    !.IsRead = "false"],
     [NoData EXCEPT !._id = 2, !.AlarmId = 2, !.AlarmCode = "LOW_BATT", !.DeviceId = "d2",
                    !.DeviceName = "d2", !.PlantName = "Plant D",
                    !.CreatedTimestamp = StartTime - 2000, !.IsActive = "true",
                    !.IsRead = "true"] >>

matches(alarm, plant, device) ==
  /\ plant = "" \/ alarm.PlantName = plant
  /\ device = "" \/ alarm.DeviceName = device

RECURSIVE selectAlarms(_, _, _)
selectAlarms(alarms, plant, device) ==
  IF alarms = <<>> THEN <<>>
  ELSE (IF matches(Head(alarms), plant, device) THEN <<Head(alarms)>> ELSE <<>>)
         \o selectAlarms(Tail(alarms), plant, device)

\* What the API can answer for a selection: the stored alarms of the selection,
\* or nothing (none stored yet, or the request failed).
ApiResults(plant, device) == {<<>>, selectAlarms(StoredAlarms, plant, device)}

\* The _id values of a list.
Ids(list) == {list[i]._id : i \in 1..Len(list)}

MountedLoad == \E i \in 1..Len(tab.fetches) : tab.fetches[i].isMounted

\* The API answers one of the waiting runs of loadAlarmsData.
FetchDone(i, data) ==
  /\ i \in 1..Len(tab.fetches)
  /\ data \in ApiResults(tab.fetches[i].plant, tab.fetches[i].device)
  /\ Step(rerender(World, loadAlarmsData(World, i, data)), "fetchDone",
          [Plain EXCEPT !.readIds = {}])

NotifMount ==
  /\ ~notif.mounted
  /\ Step(notifMount(World), "notifMount", Plain)

NotifFetchDone(data) ==
  /\ notif.fetching
  /\ Step(fetchInitialAlarms(World, data), "notifFetchDone", Plain)

\* The server pushes the alarm event called name as ev.  The history keeps
\* which records the tab merged for its selection while a load was waiting.
Push(ev, name) ==
  LET w == rerender(World, deliver(World, ev, PushAlarm(name)))
      merged == {i \in 1..Len(w.tab.alarmsRef) :
                   /\ w.tab.alarmsRef[i]._id \notin Ids(tab.alarmsRef)
                   /\ matches(w.tab.alarmsRef[i], tab.selectedPlant, tab.selectedDevice)}
  IN /\ socket # NoSocket
     /\ sockConnected
     /\ Len(cache.alarmData) < MaxAlarms
     /\ Len(tab.alarmsRef) < MaxAlarms
     /\ nextId < MaxSynth
     /\ Step(w, "push",
             [Plain EXCEPT
                !.pushedInFlight =
                   IF tab.mounted /\ MountedLoad
                   THEN @ \cup {w.tab.alarmsRef[i]._id : i \in merged}
                   ELSE @])

InitCache == InitService

NextCache ==
  \/ \E p \in TabPlants : TabMount(p, "")
  \/ \E p \in TabPlants : TabUpdate(p, "")
  \/ TabUnmount
  \/ \E i \in 1..MaxFetches, data \in UNION {ApiResults(p, "") : p \in TabPlants} :
       FetchDone(i, data)
  \/ NotifMount
  \/ \E data \in ApiResults("", "") : NotifFetchDone(data)
  \/ \E ev \in {"alarm", "alarm_notification"}, name \in PushNames : Push(ev, name)
  \/ EvConnect

SpecCache == InitCache /\ [][NextCache]_vars

\* The records of a list that are about the pushed event called name: the ones
\* with its id when it has one, otherwise the ones with its alarm code, device
\* name and timestamp.
RecordsFor(list, name) ==
  LET e == PushAlarm(name)
      id == orN(e._id, orN(e.id, orN(e.alarmId, e.AlarmId)))
  IN {i \in 1..Len(list) :
        IF id # 0
        THEN list[i]._id = id \/ list[i].AlarmId = id
        ELSE /\ list[i].AlarmCode = orS(e.alarmCode, e.AlarmCode)
             /\ list[i].DeviceName = orS(e.deviceName, e.DeviceName)
             /\ list[i].CreatedTimestamp
                  = orN(e.timestamp, orN(e.createdTimestamp, e.CreatedTimestamp))}

\* C1: however many times an alarm event was delivered (all deliveries are in
\* the same instant here, so within the window), the AlarmsTab list, the
\* SocketService alarm cache and the AlarmNotification list each hold at most
\* one record of it.
C1_DedupInvariant ==
  \A name \in PushNames :
    /\ Cardinality(RecordsFor(tab.alarmsRef, name)) <= 1
    /\ Cardinality(RecordsFor(cache.alarmData, name)) <= 1
    /\ Cardinality(RecordsFor(notif.alarmsRef, name)) <= 1

\* The list holds a record of the plant.
HasPlant(list, plant) ==
  \E i \in 1..Len(list) : toLowerCase(list[i].PlantName) = toLowerCase(plant)

\* C3: once the selected plant has changed from one plant to another, neither
\* the list the mounted tab renders nor the SocketService cache kept for the new
\* selection holds an alarm of the plant that was left.
C3_ContextIsolation ==
  hist.switchedFrom # ""
    => /\ tab.mounted => ~HasPlant(tab.alarmsRef, hist.switchedFrom)
       /\ cache.currentPlant = tab.selectedPlant
            => ~HasPlant(cache.alarmData, hist.switchedFrom)

\* C4: once no bulk load of the mounted tab is waiting any more, every alarm of
\* the selection that a push merged into the tab's list while the load was
\* waiting is still in the list.
C4_LoadKeepsPushed ==
  (tab.mounted /\ ~MountedLoad) => hist.pushedInFlight \subseteq Ids(tab.alarmsRef)

\* Newest first.
SortedDesc(list) ==
  \A i, j \in 1..Len(list) :
    i < j => list[i].CreatedTimestamp >= list[j].CreatedTimestamp

\* C5: every client list of alarms and notifications is sorted by
\* CreatedTimestamp, newest first.
C5_SortedDescending ==
  /\ SortedDesc(tab.alarmsRef)
  /\ SortedDesc(cache.alarmData)
  /\ SortedDesc(notif.alarmsRef)
  /\ SortedDesc(cache.notificationData)

-----------------------------------------------------------------------------
(* Specification of one alarm end to end: the tab is mounted and loaded, the *)
(* client connects and subscribes, an alarm is published on the channel, the *)
(* server fans it out and follows up with the notification, the client       *)
(* receives the events in the order they were sent.                          *)

\* Alarms are published at most this many times and the clock advances at
\* most this many times.
MaxPublish == 1
MaxTicks == 2

\* The alarms published on the channel: one with only an alarm code and a device
\* id, and one with the fields of a stored document and an id.
PublishedAlarms ==
  {[NoData EXCEPT !.AlarmCode = "HIGH_GAS", !.DeviceId = "d1"],
   [NoData EXCEPT !._id = 7, !.AlarmCode = "LOW_BATT", !.DeviceId = "d2",
                  !.DeviceName = "d2", !.PlantName = "Plant D",
                  !.CreatedTimestamp = StartTime]}

\* An alarm arrives on the "alarms" channel while the client is connected,
\* shows the loaded tab of all plants and listens to both alarm events.  The
\* history keeps the lengths of the client lists at that moment and whether
\* the alarm came without an id.
Publish(alarmData) ==
  /\ hist.published < MaxPublish
  /\ socket # NoSocket /\ sockConnected
  /\ tab.mounted /\ tab.fetches = <<>>
  /\ sockHandlers["alarm"] # <<>> /\ sockHandlers["alarm_notification"] # <<>>
  /\ Step(alarmsHandler(World, alarmData), "publish",
          [Plain EXCEPT !.published = @ + 1,
                        !.withoutId = (alarmData._id = 0 /\ alarmData.id = 0),
                        !.tabBefore = Len(tab.alarmsRef),
                        !.cacheBefore = Len(cache.alarmData)])

\* A timer of the server is due and runs.  The event loop runs the timer that
\* expires first and, of timers that expire together, the one set first.
TimerFire(i) ==
  /\ ~router.uncaught
  /\ i \in 1..Len(timers)
  /\ timers[i].due <= now
  /\ \A j \in 1..Len(timers) :
       \/ timers[j].due > timers[i].due
       \/ (timers[j].due = timers[i].due /\ j >= i)
  /\ Step(notificationTimeout(World, i), "timeout", Plain)

\* The client receives the oldest event in flight.
Receive ==
  /\ wire # <<>>
  /\ socket # NoSocket /\ sockConnected
  /\ Step(rerender(World, deliver([World EXCEPT !.wire = Tail(@)],
                                  Head(wire).ev, Head(wire).data)),
          "receive", Plain)

\* Time passes, up to the next timer that is due.
Tick ==
  /\ now < StartTime + MaxTicks * NotificationDelayMs
  /\ \A i \in 1..Len(timers) : timers[i].due > now
  /\ Step([World EXCEPT !.now = @ + NotificationDelayMs], "tick", Plain)

\* The API answers before the alarm is published.
LoadDone(i, data) == hist.published = 0 /\ FetchDone(i, data)

InitE2E == InitService

NextE2E ==
  \/ TabMount("", "")
  \/ \E data \in ApiResults("", "") : LoadDone(1, data)
  \/ EvConnect
  \/ \E d \in DeviceIds : CallSubscribeToDevice(d)
  \/ \E alarmData \in PublishedAlarms : Publish(alarmData)
  \/ \E i \in 1..MaxPublish : TimerFire(i)
  \/ Receive
  \/ Tick

SpecE2E == InitE2E /\ [][NextE2E]_vars

\* Everything the server sent for the published alarm has been received.
AllProcessed == hist.published = 1 /\ timers = <<>> /\ wire = <<>>

\* C2: after the alarm events and the notification of one alarm published
\* without an id have all been processed by a connected client, the
\* SocketService alarm cache has gained exactly one record.
C2_OneRecordEndToEnd ==
  (AllProcessed /\ hist.withoutId)
    => Len(cache.alarmData) = hist.cacheBefore + 1

-----------------------------------------------------------------------------
(* Specification of the fan-out router: texts arrive on the two bus channels, *)
(* the timers of the alarm subscriber fire, a client connects and joins the   *)
(* room of a device.                                                         *)

\* The bus carries at most this many messages.
MaxBus == 2

\* await redisSub.connect() resolves while the bus is available, at start-up
\* or when the library reconnects after a drop, and both channels get their
\* handlers.
SubscriberConnected ==
  /\ redis.sub \in {"connecting", "reconnecting"}
  /\ redis.busUp
  /\ Step(subscriberConnected(World), "subscriberConnected", Plain)

\* A text arrives on the "telemetry" channel, which redisSub is subscribed to.
\* An uncaught exception has ended the server process; the history keeps the
\* channel and the text.
BusTelemetry(message) ==
  /\ router.count < MaxBus
  /\ ~router.uncaught
  /\ redis.busUp /\ "telemetry" \in redis.channels
  /\ Step(telemetrySubscriber(World, message), "busTelemetry",
          [Plain EXCEPT !.bus = Append(@, [channel |-> "telemetry", text |-> message])])

\* A text arrives on the "alarms" channel.
BusAlarms(message) ==
  /\ router.count < MaxBus
  /\ ~router.uncaught
  /\ redis.busUp /\ "alarms" \in redis.channels
  /\ Step(alarmsSubscriber(World, message), "busAlarms",
          [Plain EXCEPT !.bus = Append(@, [channel |-> "alarms", text |-> message])])

InitRouter == InitService

NextRouter ==
  \/ SubscriberConnected
  \/ \E message \in TelemetryTexts : BusTelemetry(message)
  \/ \E message \in AlarmTexts : BusAlarms(message)
  \/ \E i \in 1..MaxBus : TimerFire(i)
  \/ Tick
  \/ EvConnect
  \/ CallSubscribeToDevice("d1")

SpecRouter == InitRouter /\ [][NextRouter]_vars

\* The bus messages received so far, by number.
BusMessages == 1..Len(hist.bus)

\* The texts of the input sets that are truncated.
TruncatedTexts == {"{\"deviceId\":", "{\"AlarmCode\":"}

\* The bus message was a text that parses.
Parsed(n) == hist.bus[n].text \notin TruncatedTexts

\* The object the bus message denotes.
ObjectOf(n) == JsonObjects[hist.bus[n].text]

\* The standard event name of a channel.
EventName(channel) == IF channel = "telemetry" THEN "telemetry" ELSE "alarm"

\* The device id the handler of the channel resolves.
ResolvedDevice(n) ==
  IF hist.bus[n].channel = "telemetry"
  THEN orS(ObjectOf(n).deviceId, ObjectOf(n).device)
  ELSE orS(ObjectOf(n).deviceId, ObjectOf(n).DeviceId)

\* The positions in the log of the emissions made for bus message n under an
\* event name.
EmissionsOf(n, ev) ==
  {k \in 1..Len(router.emitted) : router.emitted[k].msg = n /\ router.emitted[k].ev = ev}

\* C12: every bus message that parsed was emitted under its standard event
\* name to the global target.
C12_GlobalBroadcast ==
  \A n \in BusMessages :
    Parsed(n) => \E k \in EmissionsOf(n, EventName(hist.bus[n].channel)) :
                   router.emitted[k].target = "global"

\* C13: every bus message that parsed and whose device id resolves to d was
\* emitted under its standard event name into the room device:<d>.
C13_DeviceRoom ==
  \A n \in BusMessages :
    (Parsed(n) /\ ResolvedDevice(n) # "")
      => \E k \in EmissionsOf(n, EventName(hist.bus[n].channel)) :
           router.emitted[k].target = "device:" \o ResolvedDevice(n)

\* C14: no two emissions of the log are for the same bus message, to the same
\* target and under the same event name.
C14_OncePerTarget ==
  \A k, l \in 1..Len(router.emitted) :
    (k # l /\ router.emitted[k].msg = router.emitted[l].msg
           /\ router.emitted[k].ev = router.emitted[l].ev)
      => router.emitted[k].target # router.emitted[l].target

\* C14, reached: the telemetry of the specially handled device has gone to a
\* connected client under every name and to every target, and an alarm to the
\* global target and to the rooms of its device and plant.
C14_Witness ==
  /\ \E n \in BusMessages :
       /\ Cardinality(EmissionsOf(n, "telemetry-esp32_04")) = 2
       /\ Cardinality(EmissionsOf(n, "telemetry")) = 2
  /\ \E n \in BusMessages : Cardinality(EmissionsOf(n, "alarm")) = 3

\* The timer of bus message n has run or was never set.
TimerDone(n) == \A i \in 1..Len(timers) : timers[i].msg # n

\* C15: once the timer of an alarm message that parsed has run, exactly one
\* alarm_notification has been emitted for the message, to the global target
\* and later than every alarm emission of the message.
C15_OneNotificationAfter ==
  \A n \in BusMessages :
    (Parsed(n) /\ hist.bus[n].channel = "alarms" /\ TimerDone(n))
      => /\ Cardinality(EmissionsOf(n, "alarm_notification")) = 1
         /\ \A k \in EmissionsOf(n, "alarm_notification") :
              /\ router.emitted[k].target = "global"
              /\ \A l \in EmissionsOf(n, "alarm") : l < k

\* C16: no exception escapes the handlers of the subscriber and the timers
\* they set.
C16_NothingEscapes == ~router.uncaught

\* C17: a bus message that is not JSON has no emission and no timer, and
\* every other bus message, before or after it, has emissions.
C17_MalformedDropped ==
  \A n \in BusMessages :
    IF Parsed(n)
    THEN \E k \in 1..Len(router.emitted) : router.emitted[k].msg = n
    ELSE /\ \A k \in 1..Len(router.emitted) : router.emitted[k].msg # n
         /\ TimerDone(n)

\* C17, reached: a text that is not JSON was followed on the same channel by an
\* alarm that parsed and was fanned out.
C17_Witness ==
  /\ Len(hist.bus) = 2
  /\ ~Parsed(1) /\ Parsed(2)
  /\ hist.bus[1].channel = "alarms" /\ hist.bus[2].channel = "alarms"
  /\ EmissionsOf(2, "alarm") # {}
  /\ timers # <<>>

-----------------------------------------------------------------------------
(* Specification of the bus connections: the bus comes and goes, the        *)
(* subscriber connects or fails to, the probe runs, messages arrive while    *)
(* the subscriber is subscribed.                                             *)

\* The environment takes the bus away; redisClient stays open or closes.
BusDown ==
  /\ redis.busUp
  /\ \E open \in {FALSE, redis.clientOpen} : Step(busDown(World, open), "busDown", Plain)

\* The environment brings the bus back.
BusUp ==
  /\ ~redis.busUp
  /\ Step(busUp(World), "busUp", Plain)

\* The interval of the probe has elapsed.
Probe == Step(probe(World), "probe", Plain)

\* await redisSub.connect() rejects at start-up while the bus is unavailable.
SubscriberFailed ==
  /\ redis.sub = "connecting"
  /\ ~redis.busUp
  /\ Step(subscriberFailed(World), "subscriberFailed", Plain)

\* The texts that arrive in this specification.
ProbedTexts == {"{\"deviceId\":\"d1\"}", "{\"deviceId\":\"esp32_04\"}"}

InitBus == InitService

NextBus ==
  \/ BusDown
  \/ BusUp
  \/ Probe
  \/ SubscriberConnected
  \/ SubscriberFailed
  \/ \E message \in ProbedTexts : BusTelemetry(message)
  \/ \E message \in ProbedTexts : BusAlarms(message)
  \/ \E i \in 1..MaxBus : TimerFire(i)
  \/ Tick

\* The timer of the probe keeps firing and a connection attempt that can
\* succeed does.
SpecBus ==
  InitBus /\ [][NextBus]_vars /\ WF_vars(Probe) /\ WF_vars(SubscriberConnected)

Subscribed == redis.sub = "subscribed" /\ redis.channels = {"telemetry", "alarms"}

\* C18: if the bus is available from some moment on, the subscriber is
\* subscribed to both channels from some moment on.
C18_SubscriberRecovers == <>[](redis.busUp) => <>[]Subscribed

-----------------------------------------------------------------------------
(* Specification of the bulk loads of the SocketService caches: the callers  *)
(* hand over lists of records, empty ones included, as time passes.          *)

\* The lists handed over: every list without repetition of the stored alarms,
\* formatted as the tab formats them.
BulkLists ==
  LET a == formatAlarm(World, StoredAlarms, 1)
      b == formatAlarm(World, StoredAlarms, 2)
  IN {<<>>, <<a>>, <<b>>, <<a, b>>, <<b, a>>}

CallCacheAlarmData(list) ==
  Step(cacheAlarmData(World, list), "cacheAlarmData",
       [Plain EXCEPT !.arg = list, !.afterClear = (hist.lastOp = "clearAlarmCache")])

CallCacheNotificationData(list) ==
  Step(cacheNotificationData(World, list), "cacheNotificationData",
       [Plain EXCEPT !.arg = list])

CallClearAlarmCache == Step(clearAlarmCache(World), "clearAlarmCache", Plain)

InitBulk == InitService

NextBulk ==
  \/ \E list \in BulkLists : CallCacheAlarmData(list)
  \/ \E list \in BulkLists : CallCacheNotificationData(list)
  \/ CallClearAlarmCache
  \/ Tick

SpecBulk == InitBulk /\ [][NextBulk]_vars

\* C20: right after cacheAlarmData(list) the alarm cache holds exactly the
\* list, is marked loaded and carries the current time as its fetch time, and
\* likewise the notification cache right after cacheNotificationData(list).
C20_BulkLoadReplaces ==
  /\ hist.lastOp = "cacheAlarmData"
       => /\ cache.alarmData = hist.arg
          /\ cache.alarmsInitialDataLoaded
          /\ cache.lastFetchTime = now
  /\ hist.lastOp = "cacheNotificationData"
       => /\ cache.notificationData = hist.arg
          /\ cache.notificationsInitialDataLoaded
          /\ cache.lastNotificationFetchTime = now

\* C21: right after clearAlarmCache() followed at once by cacheAlarmData(list),
\* the alarm cache holds exactly the list, so no record cached before the
\* clearing, and is marked loaded.
C21_InvalidateThenLoad ==
  (hist.lastOp = "cacheAlarmData" /\ hist.afterClear)
    => /\ cache.alarmData = hist.arg
       /\ cache.alarmsInitialDataLoaded

-----------------------------------------------------------------------------
(* Specification of the notifications: the provider is mounted and polls the *)
(* API, other callers register for notifications, the socket connects and    *)
(* notifications are pushed, also repeatedly.                                *)

\* The unread counter of the provider grows up to this number.
MaxUnread == 3

\* The notifications the database holds, as the API returns them.
StoredNotifications ==
  << [NoData EXCEPT !._id = 1, !.NotificationId = 1, !.Type = "alarm",
                    !.CreatedTimestamp = StartTime - 1000, !.IsRead = "false"] >>

\* The notifications the server pushes: the stored one and a later one.
PushedNotifications ==
  {[NoData EXCEPT !._id = 1, !.NotificationId = 1, !.Type = "alarm",
                  !.CreatedTimestamp = StartTime - 1000],
   [NoData EXCEPT !._id = 2, !.NotificationId = 2, !.Type = "alarm",
                  !.CreatedTimestamp = StartTime]}

ProviderMount ==
  /\ ~provider.mounted
  /\ Step(providerMount(World), "providerMount", Plain)

\* getAllNotifications answered, with the stored notifications or by throwing.
ProviderFetched(failed) ==
  /\ provider.mounted
  /\ Step(fetchNotifications(World, StoredNotifications, failed), "providerFetched", Plain)

\* getUnreadNotificationsCount answered.
UnreadFetched(count) ==
  /\ provider.mounted
  /\ Step(fetchUnreadCount(World, count), "unreadFetched", Plain)

\* Another caller registers a callback for notifications.
RegisterNotification(cb) ==
  /\ Len(listeners["notification"]) <= MaxListeners
  /\ Step(onNotification(World, cb), "onNotification", registered("notification", cb, ""))

\* The provider holds a notification that handleNewNotification matches with n.
Held(n) ==
  \E i \in 1..Len(provider.notifications) :
    \/ provider.notifications[i]._id = n._id
    \/ provider.notifications[i].NotificationId = n.NotificationId

\* The server pushes notification n to the connected socket.  The history
\* keeps whether the provider held it, and the provider's list and counter.
PushNotification(n) ==
  /\ socket # NoSocket /\ sockConnected
  /\ provider.unreadCount < MaxUnread
  /\ Step(deliver(World, "notification", n), "pushNotification",
          [Plain EXCEPT !.matched = Held(n),
                        !.before = <<provider.notifications, provider.unreadCount>>])

InitNotify == InitService

NextNotify ==
  \/ ProviderMount
  \/ \E failed \in BOOLEAN : ProviderFetched(failed)
  \/ \E count \in {0, 1} : UnreadFetched(count)
  \/ \E cb \in Callbacks : RegisterNotification(cb)
  \/ \E n \in PushedNotifications : PushNotification(n)
  \/ EvConnect
  \/ EvDisconnect

SpecNotify == InitNotify /\ [][NextNotify]_vars

\* C22: when a pushed notification reaches handleNewNotification and the
\* provider already holds a matching record, the provider's list (the read
\* flags of its records included) and its unread counter are what they were
\* before the event.
C22_DuplicateIsNoOp ==
  (hist.lastOp = "pushNotification" /\ hist.matched
     /\ Occurrences(invoked, "handleNewNotification") > 0)
    => <<provider.notifications, provider.unreadCount>> = hist.before

\* C29: right after onNotification(cb) was called on an existing socket, for
\* the first time or again, the socket has exactly one raw handler for
\* 'notification' and one 'notification' event invokes cb exactly once.
C29_NotificationOnce ==
  (hist.lastOp = "onNotification" /\ hist.live)
    => /\ Len(sockHandlers["notification"]) = 1
       /\ Occurrences(deliver(World, "notification",
                              TestEvent("notification", "d1")).invoked,
                      hist.cb) = 1

-----------------------------------------------------------------------------
(* Specification of the storage failures: the tab of all alarms is mounted,  *)
(* its bulk load and its mark-read calls go through the API to the database, *)
(* which is available or not.                                                *)

\* The database answers ("up"), rejects the operation ("queryFails"), or the
\* client object cannot be used at all ("clientFails"); the API server is
\* reachable from the browser or not.
StorageStates == {"up", "queryFails", "clientFails"}

\* An HTTP exchange as axios ends it: a response with a body, or an exception
\* after the retries of apiCallWithRetry.
Response(data) == [ok |-> TRUE, data |-> data]
NoResponse == [ok |-> FALSE, data |-> <<>>]

\* alarmRouter.get('/'): find() rejecting is caught by the inner try and the
\* route answers with no alarms; any other exception is caught by the outer
\* try and the route answers with a test alarm.
alarmsRoute(w, storage) ==
  IF storage = "up" THEN Response(StoredAlarms)
  ELSE IF storage = "queryFails" THEN Response(<<>>)
  ELSE Response(<< [NoData EXCEPT !._id = 901, !.AlarmId = 902,
                                  !.AlarmCode = "IO_ALR_108",
                                  !.AlarmDescription = "Test alarm (MongoDB fallback)",
                                  !.CreatedTimestamp = w.now, !.DeviceId = "esp32_04",
                                  !.DeviceName = "ESP32 Device", !.PlantName = "Plant D",
                                  !.IsActive = "true", !.IsRead = "false"] >>)

\* getAllAlarms(): the array of the response, or [] when the call threw.
getAllAlarms(response) == IF response.ok THEN response.data ELSE <<>>

\* alarmRouter.put('/:alarmId/read'): { success } of the update, or the test
\* response { success: true } when the update threw.
markReadRoute(storage, alarmId) ==
  IF storage = "up"
  THEN Response(\E i \in 1..Len(StoredAlarms) :
                  StoredAlarms[i]._id = alarmId \/ StoredAlarms[i].AlarmId = alarmId)
  ELSE Response(TRUE)

\* markAlarmAsRead(alarmId): true for a 2xx response, false when the call threw.
markAlarmAsRead(response) == response.ok

\* handleMarkAsRead(alarmId) after markAlarmAsRead resolved: the value it
\* resolved with is not looked at.
handleMarkAsRead(w, alarmId, success) ==
  [w EXCEPT !.tab.alarms =
              [i \in 1..Len(@) |-> IF @[i]._id = alarmId
                                   THEN [@[i] EXCEPT !.IsRead = TRUE] ELSE @[i]]]

\* What the tab renders above the table.
view(w) ==
  IF w.tab.error THEN "error"
  ELSE IF Len(w.tab.alarms) = 0 /\ ~w.tab.isLoading THEN "No alarms found"
  ELSE "alarms"

\* The exchange of the i-th waiting run of loadAlarmsData ends.
FetchAnswered(i, storage, reachable) ==
  /\ i \in 1..Len(tab.fetches)
  /\ LET response == IF reachable THEN alarmsRoute(World, storage) ELSE NoResponse
     IN Step(rerender(World, loadAlarmsData(World, i, getAllAlarms(response))),
             "fetchAnswered",
             [Plain EXCEPT !.readIds = {},
                           !.unavailable = (tab.fetches[i].isMounted
                                            /\ (storage # "up" \/ ~reachable))])

\* handleMarkAsRead(alarmId) of AlarmNotification after markAlarmAsRead
\* resolved: the value it resolved with is not looked at either.
notifMarkAsRead(w, alarmId, success) ==
  [w EXCEPT !.notif.recentAlarms =
              [i \in 1..Len(@) |-> IF @[i]._id = alarmId
                                   THEN [@[i] EXCEPT !.IsRead = TRUE] ELSE @[i]],
            !.notif.unreadCount = IF @ - 1 < 0 THEN 0 ELSE @ - 1]

\* The user marks a listed alarm as read and the exchange ends.  The history
\* keeps what the components showed before, and the ids marked since the last
\* bulk load.
MarkAsRead(i, storage, reachable) ==
  /\ tab.mounted
  /\ i \in 1..Len(tab.alarms)
  /\ ~tab.alarms[i].IsRead
  /\ LET alarmId == tab.alarms[i]._id
         response == IF reachable THEN markReadRoute(storage, alarmId) ELSE NoResponse
     IN Step(handleMarkAsRead(World, alarmId, markAlarmAsRead(response)),
             "markAsRead",
             [Plain EXCEPT !.unavailable = (storage # "up" \/ ~reachable),
                           !.before = <<tab.alarms, notif.recentAlarms, notif.unreadCount>>,
                           !.readIds = @ \cup {alarmId}])

\* The user marks an alarm of the notification list as read and the exchange
\* ends.
NotifMarkAsRead(i, storage, reachable) ==
  /\ notif.mounted
  /\ i \in 1..Len(notif.recentAlarms)
  /\ ~notif.recentAlarms[i].IsRead
  /\ LET alarmId == notif.recentAlarms[i]._id
         response == IF reachable THEN markReadRoute(storage, alarmId) ELSE NoResponse
     IN Step(notifMarkAsRead(World, alarmId, markAlarmAsRead(response)),
             "notifMarkAsRead",
             [Plain EXCEPT !.unavailable = (storage # "up" \/ ~reachable),
                           !.before = <<tab.alarms, notif.recentAlarms, notif.unreadCount>>])

InitStorage == InitService

NextStorage ==
  \/ TabMount("", "")
  \/ TabUnmount
  \/ \E i \in 1..MaxFetches, storage \in StorageStates, reachable \in BOOLEAN :
       FetchAnswered(i, storage, reachable)
  \/ \E i \in 1..MaxAlarms, storage \in StorageStates, reachable \in BOOLEAN :
       MarkAsRead(i, storage, reachable)
  \/ NotifMount
  \/ \E data \in ApiResults("", "") : NotifFetchDone(data)
  \/ \E i \in 1..MaxAlarms, storage \in StorageStates, reachable \in BOOLEAN :
       NotifMarkAsRead(i, storage, reachable)
  \/ EvConnect
  \/ EvDisconnect
  \/ Tick

SpecStorage == InitStorage /\ [][NextStorage]_vars

\* C23: when the bulk load of the mounted tab or a mark-read call ended while
\* the database or the API was unavailable, the tab shows its error state.
C23_FailureSurfaced ==
  (hist.lastOp \in {"fetchAnswered", "markAsRead"} /\ hist.unavailable)
    => view(World) = "error"

-----------------------------------------------------------------------------
(* The device filter of onTelemetry, under the specification of the listener *)
(* registry.                                                                 *)

\* The telemetry events the server sends: about the device of the filter under
\* either field name, about another device, about a device whose id contains
\* the filter's, about one whose id the filter's contains, and without an id.
TelemetryEvents ==
  {[NoData EXCEPT !.device = "d1"], [NoData EXCEPT !.deviceId = "d1"],
   [NoData EXCEPT !.deviceId = "d2"], [NoData EXCEPT !.deviceId = "d1-a"],
   [NoData EXCEPT !.device = "d"], NoData}

\* The device id an event carries, "" when it carries none.
EventDeviceId(e) == orS(e.device, e.deviceId)

\* The event's device id equals f, contains f, or is contained in f.
Tolerant(f, e) ==
  /\ EventDeviceId(e) # ""
  /\ \/ EventDeviceId(e) = f
     \/ includes(EventDeviceId(e), f)
     \/ includes(f, EventDeviceId(e))

\* C24: right after onTelemetry(cb, f) was called on an existing socket, a
\* telemetry event invokes cb if and only if no filter was given or the
\* event's device id equals f, contains f or is contained in f.
C24_DeviceFilter ==
  (hist.lastOp = "onTelemetry" /\ hist.live)
    => \A e \in TelemetryEvents :
         (Occurrences(deliver(World, "telemetry", e).invoked, hist.cb) > 0)
           <=> (Falsy(hist.device) \/ Tolerant(hist.device, e))

\* C24, reached: a callback registered with the filter d1 on a connected
\* socket is invoked for the device d1-a and for the device d, and is not
\* invoked for the device d2.
C24_Witness ==
  /\ hist.lastOp = "onTelemetry" /\ hist.live /\ hist.device = "d1"
  /\ sockConnected
  /\ Occurrences(deliver(World, "telemetry",
                         [NoData EXCEPT !.deviceId = "d1-a"]).invoked, hist.cb) = 1
  /\ Occurrences(deliver(World, "telemetry",
                         [NoData EXCEPT !.device = "d"]).invoked, hist.cb) = 1
  /\ Occurrences(deliver(World, "telemetry",
                         [NoData EXCEPT !.deviceId = "d2"]).invoked, hist.cb) = 0

-----------------------------------------------------------------------------
(* Specification of the normalizers: a raw alarm is drawn under the field    *)
(* names of the stored documents and under other names for the same fields, *)
(* and one of the normalizers is applied to both.                            *)

\* normalizeAlarmObject(alarm, contextDeviceId = null) of the alarm controller.
normalizeAlarmObject(w, alarm, contextDeviceId) ==
  AlarmRecord(
    orN(alarm._id, synthId(w)),
    orN(alarm.AlarmId, alarm.alarmId),
    orS(alarm.AlarmCode, alarm.alarmCode),
    orS(alarm.AlarmDescription, orS(alarm.alarmDescription, alarm.description)),
    orN(alarm.CreatedTimestamp, orN(alarm.createdTimestamp, orN(alarm.timestamp, w.now))),
    orS(alarm.DeviceId, orS(alarm.deviceId, contextDeviceId)),
    orS(alarm.DeviceName, alarm.deviceName),
    orS(alarm.PlantName, alarm.plantName),
    boolOr(alarm.IsActive, boolOr(alarm.isActive, TRUE)),
    boolOr(alarm.IsRead, boolOr(alarm.isRead, FALSE)),
    "")

\* The values of a raw alarm and the field names they can come under.
RawValues ==
  [id : {7}, code : {"HIGH_GAS", "LOW_BATT"}, device : {"d1"}, ts : {StartTime - 1000},
   active : {UNDEFINED, "true", "false"}, read : {UNDEFINED, "true", "false"}]

FieldNames ==
  [id : {"_id", "id"}, code : {"AlarmCode", "alarmCode"},
   device : {"DeviceId", "deviceId"},
   ts : {"CreatedTimestamp", "createdTimestamp", "timestamp"},
   active : {"IsActive", "isActive"}, read : {"IsRead", "isRead"}]

\* The field names of the stored documents.
StoredNames ==
  [id |-> "_id", code |-> "AlarmCode", device |-> "DeviceId", ts |-> "CreatedTimestamp",
   active |-> "IsActive", read |-> "IsRead"]

\* The raw alarm with values v under the field names f.
Raw(v, f) ==
  [NoData EXCEPT ![f.id] = v.id, ![f.code] = v.code, ![f.device] = v.device,
                 ![f.ts] = v.ts, ![f.active] = v.active, ![f.read] = v.read]

\* The record handleNewAlarm formats and merges into an empty list.
pushFormat(w, alarmData) == handleNewAlarm(w, alarmData).tab.alarmsRef[1]

\* The record addAlarmToCache formats and adds to an empty cache.
cacheFormat(w, newAlarm) == addAlarmToCache(w, newAlarm).cache.alarmData[1]

\* One normalizer is applied to both raw alarms; the history keeps both results.
Normalized(op, a, b) ==
  /\ hist.norm = <<>>
  /\ Step(World, op, [hist EXCEPT !.norm = <<a, b>>])

NormalizeAlarmObject ==
  Normalized("normalizeAlarmObject",
             normalizeAlarmObject(World, hist.raw[1], ""),
             normalizeAlarmObject(World, hist.raw[2], ""))

FormatAlarm ==
  Normalized("formatAlarm", formatAlarm(World, hist.raw, 1),
             formatAlarm(World, <<hist.raw[2]>>, 1))

PushFormat ==
  Normalized("handleNewAlarm", pushFormat(World, hist.raw[1]),
             pushFormat(World, hist.raw[2]))

CacheFormat ==
  Normalized("addAlarmToCache", cacheFormat(World, hist.raw[1]),
             cacheFormat(World, hist.raw[2]))

InitNormalize ==
  /\ InitWorld
  /\ \E v \in RawValues, f \in FieldNames :
       hist = [NoHist EXCEPT !.raw = <<Raw(v, StoredNames), Raw(v, f)>>]

NextNormalize ==
  \/ NormalizeAlarmObject
  \/ FormatAlarm
  \/ PushFormat
  \/ CacheFormat

SpecNormalize == InitNormalize /\ [][NextNormalize]_vars

\* C25: a normalizer applied to two raw alarms that carry the same values
\* under different names of the same fields yields the same record.
C25_AliasInsensitive == hist.norm # <<>> => hist.norm[1] = hist.norm[2]

\* The boolean a raw alarm supplies for a field under either name.
Supplied(raw, upper, lower) == IF raw[upper] # UNDEFINED THEN raw[upper] ELSE raw[lower]

\* C26: the normalized record has IsActive = true and IsRead = false when the
\* raw alarm supplies no value for the field under either name, and otherwise
\* the value it supplies.
C26_BooleanDefaults ==
  hist.norm # <<>>
    => \A k \in 1..2 :
         /\ hist.norm[k].IsActive = boolOr(Supplied(hist.raw[k], "IsActive", "isActive"), TRUE)
         /\ hist.norm[k].IsRead = boolOr(Supplied(hist.raw[k], "IsRead", "isRead"), FALSE)

-----------------------------------------------------------------------------
(* The single connection, under the specification of the listener registry. *)

-----------------------------------------------------------------------------
(* Identity of the records, under SpecCache.                                 *)

\* No two records of the list have the same _id.
UniqueIds(list) ==
  \A i, j \in 1..Len(list) : i # j => list[i]._id # list[j]._id

-----------------------------------------------------------------------------
(* Order of the alarm fan-out, under SpecRouter.                             *)

\* The emissions under the event name are in the order of the bus messages
\* they were made for.
InBusOrder(ev) ==
  \A k, l \in 1..Len(router.emitted) :
    (/\ router.emitted[k].ev = ev
     /\ router.emitted[l].ev = ev
     /\ router.emitted[k].msg < router.emitted[l].msg) => k < l

\* C30: the 'alarm' emissions are in the order in which their messages arrived
\* on the "alarms" channel, and so are the 'alarm_notification' emissions the
\* timers make.
C30_PerChannelFifo ==
  /\ InBusOrder("alarm")
  /\ InBusOrder("alarm_notification")

\* Two alarms arrived on the channel and for each of them the alarm and, after
\* its timer, the notification went out.
C30_Witness ==
  /\ Len(hist.bus) = 2
  /\ \A n \in BusMessages :
       /\ hist.bus[n].channel = "alarms"
       /\ EmissionsOf(n, "alarm") # {}
       /\ EmissionsOf(n, "alarm_notification") # {}

-----------------------------------------------------------------------------
(* Specification of the pending-subscription set: devices, plants and the    *)
(* notifications are subscribed and unsubscribed in every connection state,  *)
(* the tab is mounted and unmounted (which sets the plant of the cache), the *)
(* connection comes and goes.  The history keeps the set before a call and   *)
(* the subscriptions that were unsubscribed and not subscribed again since.  *)

SubscribeDevice(d) ==
  Step(subscribeToDevice(World, d), "subscribeToDevice",
       [Plain EXCEPT !.device = d, !.pendingBefore = pendingSubscriptions,
                     !.dropped = @ \ {d}])

SubscribePlant(p) ==
  Step(subscribeToPlant(World, p), "subscribeToPlant",
       [Plain EXCEPT !.pendingBefore = pendingSubscriptions,
                     !.dropped = @ \ {"plant-" \o p}])

UnsubscribeDevice(d) ==
  Step(unsubscribeFromDevice(World, d), "unsubscribeFromDevice",
       [Plain EXCEPT !.pendingBefore = pendingSubscriptions,
                     !.dropped = @ \cup {d}])

UnsubscribePlant(p) ==
  Step(unsubscribeFromPlant(World, p), "unsubscribeFromPlant",
       [Plain EXCEPT !.pendingBefore = pendingSubscriptions,
                     !.dropped = @ \cup {"plant-" \o p}])

SubscribeNotifications ==
  Step(subscribeToNotifications(World), "subscribeToNotifications",
       [Plain EXCEPT !.pendingBefore = pendingSubscriptions])

\* The plants the callers name: one by its id, one by the name the tab selects.
PendingPlants == {"1", "Plant C"}

InitPending == InitService

NextPending ==
  \/ \E d \in DeviceIds : SubscribeDevice(d)
  \/ \E p \in PendingPlants : SubscribePlant(p)
  \/ \E d \in DeviceIds : UnsubscribeDevice(d)
  \/ \E p \in PendingPlants : UnsubscribePlant(p)
  \/ SubscribeNotifications
  \/ TabMount("Plant C", "")
  \/ TabUnmount
  \/ CallDisconnect
  \/ EvConnect
  \/ EvDisconnect

SpecPending == InitPending /\ [][NextPending]_vars

\* C31: subscribeToDevice(d) leaves every plant entry and the notifications
\* entry that the pending-subscription set held before the call in the set.
C31_DeviceKeepsOthers ==
  hist.lastOp = "subscribeToDevice"
    => \A sub \in hist.pendingBefore :
         (IsPlantKey(sub) \/ sub = "notifications") => sub \in pendingSubscriptions

\* C32: a 'connect' event does not emit the subscription of a device or plant
\* that was unsubscribed, in whatever connection state, and has not been
\* subscribed again since.
C32_UnsubscribedNotReplayed ==
  hist.lastOp = "connect"
    => \A sub \in hist.dropped : SubscribeMessage(sub) \notin out

\* The message an entry of the pending-subscription set was requested with.
RequestedMessage(sub) ==
  IF sub = "notifications" THEN <<"subscribe-notifications", NULL>>
  ELSE SubscribeMessage(sub)

\* C33: a 'connect' event emits for every entry of the pending-subscription
\* set the message the entry was requested with, and emits no device
\* subscription for the notifications entry.
C33_ReplayKeepsKind ==
  hist.lastOp = "connect"
    => /\ \A sub \in pendingSubscriptions : RequestedMessage(sub) \in out
       /\ <<"subscribe", "notifications">> \notin out

-----------------------------------------------------------------------------
(* Specification of the listeners that wait for the socket: callbacks are    *)
(* registered in every state of the socket, the service is disconnected, the *)
(* connection comes and goes, events are pushed.  The history keeps the      *)
(* callbacks that were registered while there was no socket, until the next  *)
(* 'connect' event has been handled.                                         *)

\* At most this many callbacks wait in one list.
MaxQueued == 2

\* What the history keeps of a registration made while there was no socket.
queuedWith(kind, cb) ==
  [registered(kind, cb, "")
     EXCEPT !.queued = IF socket = NoSocket THEN @ \cup {<<kind, cb>>} ELSE @]

RegisterTelemetry(cb) ==
  /\ Len(listeners["telemetry"]) < MaxListeners
  /\ Step(onTelemetry(World, cb, UNDEFINED), "onTelemetry", queuedWith("telemetry", cb))

RegisterAlarm(cb) ==
  /\ Len(listeners["_pending_alarm"]) < MaxQueued
  /\ Step(onAlarm(World, cb), "onAlarm", queuedWith("alarm", cb))

RegisterAlarmNotification(cb) ==
  /\ Len(listeners["_pending_alarm_notification"]) < MaxQueued
  /\ Step(onAlarmNotification(World, cb), "onAlarmNotification",
          queuedWith("alarm_notification", cb))

InitQueue == InitService

NextQueue ==
  \/ \E cb \in Callbacks : RegisterTelemetry(cb)
  \/ \E cb \in Callbacks : RegisterAlarm(cb)
  \/ \E cb \in Callbacks : RegisterAlarmNotification(cb)
  \/ \E ev \in RegisteredKinds : Deliver(ev, "d1")
  \/ CallDisconnect
  \/ EvConnect
  \/ EvDisconnect

SpecQueue == InitQueue /\ [][NextQueue]_vars

\* C34: after a 'connect' event, every callback that was passed to onAlarm,
\* onAlarmNotification or onTelemetry while there was no socket is called for
\* an event of its kind.
C34_QueuedListenersActive ==
  hist.lastOp = "connect"
    => \A q \in hist.queued :
         Occurrences(deliver(World, q[1], TestEvent(q[1], "d1")).invoked, q[2]) > 0

-----------------------------------------------------------------------------
(* The event bus of the components (eventBusService.js), for one event name. *)
(* A listener is a function of a component: it returns, or throws, or calls  *)
(* off for a listener (itself or another one) and returns.                   *)

BusListener(name, does, target) == [name |-> name, does |-> does, target |-> target]

\* off(event, callback): indexOf and splice on the array of the event.
eventBusOff(w, callback) == [w EXCEPT !.busListeners = removeFirst(@, callback)]

\* callback(data) inside the try block of emit: an exception is caught and
\* logged.
busCall(w, l) ==
  LET w1 == [w EXCEPT !.invoked = Append(@, l.name)]
  IN IF l.does = "off"
     THEN LET hit == {i \in 1..Len(w1.busListeners) : w1.busListeners[i].name = l.target}
          IN IF hit = {} THEN w1
             ELSE eventBusOff(w1, w1.busListeners[CHOOSE i \in hit : TRUE])
     ELSE w1

\* Array.prototype.forEach on the array of the event itself: the indices up to
\* the length at the start are visited in order, and an index the array no
\* longer has when its turn comes is passed over.
RECURSIVE busForEach(_, _, _)
busForEach(w, k, len) ==
  IF k > len THEN w
  ELSE IF k > Len(w.busListeners) THEN busForEach(w, k + 1, len)
  ELSE busForEach(busCall(w, w.busListeners[k]), k + 1, len)

\* emit(event, data)
eventBusEmit(w) == busForEach(w, 1, Len(w.busListeners))

-----------------------------------------------------------------------------
(* Specification of the event bus: listeners are added and removed, and the  *)
(* event is emitted.                                                         *)

\* At most this many listeners on the event.
MaxBusListeners == 3

BusListenerNames == {"l1", "l2", "l3"}

BusListeners ==
  {BusListener(n, d, "") : n \in BusListenerNames, d \in {"returns", "throws"}}
    \cup {BusListener(n, "off", t) : n \in BusListenerNames, t \in BusListenerNames}

\* on(event, callback), each function once.
BusOn(l) ==
  /\ Len(busListeners) < MaxBusListeners
  /\ \A i \in 1..Len(busListeners) : busListeners[i].name # l.name
  /\ Step(eventBusOn(World, l), "busOn", Plain)

\* The function on() returned is called between two emits.
BusOff(i) ==
  /\ i \in 1..Len(busListeners)
  /\ Step(eventBusOff(World, busListeners[i]), "busOff", Plain)

\* emit(event, data); the history keeps the listeners at the start.
BusEmit ==
  /\ busListeners # <<>>
  /\ Step(eventBusEmit(World), "busEmit", [Plain EXCEPT !.before = busListeners])

InitEventBus == InitService

NextEventBus ==
  \/ \E l \in BusListeners : BusOn(l)
  \/ \E i \in 1..MaxBusListeners : BusOff(i)
  \/ BusEmit

SpecEventBus == InitEventBus /\ [][NextEventBus]_vars

\* C35: after one emit, every listener that was registered when the emit
\* started and has not been removed has been called exactly once.
C35_EveryListenerOnce ==
  hist.lastOp = "busEmit"
    => \A i \in 1..Len(hist.before) :
         (\E j \in 1..Len(busListeners) : busListeners[j] = hist.before[i])
           => Occurrences(invoked, hist.before[i].name) = 1

-----------------------------------------------------------------------------
(* Read flags.                                                               *)

\* C37: a mark-read call that ended while the database or the API was
\* unavailable leaves the read flags the components show and the unread
\* counter as they were.
C37_ReadOnlyOnSuccess ==
  (hist.lastOp \in {"markAsRead", "notifMarkAsRead"} /\ hist.unavailable)
    => <<tab.alarms, notif.recentAlarms, notif.unreadCount>> = hist.before

(* Specification of the read flags of the tab: the tab of a plant is mounted *)
(* and unmounted, its bulk load completes, the user marks alarms as read     *)
(* while the database is available, alarm events are pushed.                 *)

InitRead == InitService

NextRead ==
  \/ TabMount("Plant C", "")
  \/ TabUnmount
  \/ \E i \in 1..MaxFetches, data \in ApiResults("Plant C", "") : FetchDone(i, data)
  \/ \E i \in 1..MaxAlarms : MarkAsRead(i, "up", TRUE)
  \/ \E ev \in {"alarm", "alarm_notification"}, name \in PushNames : Push(ev, name)
  \/ EvConnect

SpecRead == InitRead /\ [][NextRead]_vars

\* C36: every alarm that was marked read since the last bulk load is shown as
\* read by the mounted tab, after merges of pushed alarms and after a mount
\* that reused the cache of the service.
C36_ReadIsMonotonic ==
  tab.mounted
    => \A i \in 1..Len(tab.alarms) :
         tab.alarms[i]._id \in hist.readIds => tab.alarms[i].IsRead

-----------------------------------------------------------------------------
(* Specification of the merges of distinct events: the tab of all plants is  *)
(* mounted and unmounted, the notification provider is mounted, the          *)
(* connection comes up, and the server pushes alarms and notifications that  *)
(* are different logical events.                                             *)

\* Lists grow to at most this many records, and ids are synthesized at most
\* this many times.
MaxMerged == 3
MaxMergeIds == 5

\* Alarms that are distinct logical events: two without an id from different
\* devices, and two with different ids, the same code and different devices.
MergeAlarms ==
  {[NoData EXCEPT !.alarmCode = "HIGH_GAS", !.deviceId = "d1", !.deviceName = "d1",
                  !.createdTimestamp = StartTime],
   [NoData EXCEPT !.alarmCode = "HIGH_GAS", !.deviceId = "d2", !.deviceName = "d2",
                  !.createdTimestamp = StartTime],
   [NoData EXCEPT !.id = 7, !.AlarmCode = "LOW_BATT", !.DeviceId = "d1",
                  !.DeviceName = "d1", !.CreatedTimestamp = StartTime],
   [NoData EXCEPT !.id = 8, !.AlarmCode = "LOW_BATT", !.DeviceId = "d2",
                  !.DeviceName = "d2", !.CreatedTimestamp = StartTime]}

\* Notifications that are distinct logical events: no _id, different
\* notification ids.
MergeNotifications ==
  {[NoData EXCEPT !.NotificationId = 1, !.Type = "alarm", !.Message = "m1",
                  !.CreatedTimestamp = StartTime],
   [NoData EXCEPT !.NotificationId = 2, !.Type = "alarm", !.Message = "m2",
                  !.CreatedTimestamp = StartTime]}

\* The server pushes alarm e to the connected socket, which has a handler for
\* the event.
MergeAlarm(ev, e) ==
  /\ socket # NoSocket /\ sockConnected
  /\ sockHandlers[ev] # <<>>
  /\ Len(cache.alarmData) < MaxMerged
  /\ Len(tab.alarmsRef) < MaxMerged
  /\ nextId < MaxMergeIds
  /\ Step(rerender(World, deliver(World, ev, e)), "mergeAlarm",
          [Plain EXCEPT !.arg = <<e>>])

\* The server pushes notification n to the connected socket, which has a
\* handler for the event.
MergeNotification(n) ==
  /\ socket # NoSocket /\ sockConnected
  /\ sockHandlers["notification"] # <<>>
  /\ provider.unreadCount < MaxUnread
  /\ Step(deliver(World, "notification", n), "mergeNotification",
          [Plain EXCEPT !.arg = <<n>>])

InitMerge == InitService

NextMerge ==
  \/ TabMount("", "")
  \/ TabUnmount
  \/ \E i \in 1..MaxFetches : FetchDone(i, <<>>)
  \/ ProviderMount
  \/ EvConnect
  \/ \E ev \in {"alarm", "alarm_notification"}, e \in MergeAlarms : MergeAlarm(ev, e)
  \/ \E n \in MergeNotifications : MergeNotification(n)

SpecMerge == InitMerge /\ [][NextMerge]_vars

\* The list holds a record of alarm e.
HoldsAlarm(list, e) ==
  \E i \in 1..Len(list) :
    /\ list[i].AlarmCode = orS(e.alarmCode, e.AlarmCode)
    /\ list[i].DeviceId = orS(e.deviceId, e.DeviceId)

\* The list holds a record of notification n.
HoldsNotification(list, n) ==
  \E i \in 1..Len(list) : list[i].NotificationId = n.NotificationId

\* C38: after the merge of an event, the SocketService cache holds a record of
\* it, and so does the list of the component whose handler was called for it.
C38_DistinctEventsRetained ==
  /\ hist.lastOp = "mergeAlarm"
       => /\ HoldsAlarm(cache.alarmData, hist.arg[1])
          /\ Occurrences(invoked, "handleNewAlarm") > 0
               => HoldsAlarm(tab.alarmsRef, hist.arg[1])
  /\ hist.lastOp = "mergeNotification"
       => /\ HoldsNotification(cache.notificationData, hist.arg[1])
          /\ Occurrences(invoked, "handleNewNotification") > 0
               => HoldsNotification(provider.notifications, hist.arg[1])

-----------------------------------------------------------------------------
(* Server: the plant rooms *)

\* The texts of events that name their plant: a plant that is not one of the
\* two known plants, a known plant by name, and a known plant by id.
PlantTexts ==
  {"{\"deviceId\":\"d1\",\"plantName\":\"Plant X\"}",
   "{\"deviceId\":\"d1\",\"plantName\":\"Plant C\"}",
   "{\"deviceId\":\"d2\",\"plantId\":\"2\"}",
   "{\"alarmCode\":\"LOW_BATT\",\"plantName\":\"Plant D\"}"}

InitPlant == InitService

NextPlant ==
  \/ SubscriberConnected
  \/ \E message \in PlantTexts : BusTelemetry(message)
  \/ \E message \in PlantTexts : BusAlarms(message)
  \/ \E i \in 1..MaxBus : TimerFire(i)
  \/ Tick
  \/ EvConnect

SpecPlant == InitPlant /\ [][NextPlant]_vars

\* The id of a known plant by its name; "" for any other name.
KnownPlantId(plantName) ==
  IF plantName = "Plant C" THEN "1" ELSE IF plantName = "Plant D" THEN "2" ELSE ""

\* The bus message names its plant, by id or by name.
NamesPlant(n) == ObjectOf(n).plantId # "" \/ ObjectOf(n).plantName # ""

\* The plant the bus message names: its plant id, else the id of the known
\* plant of its plant name, else none.
NamedPlant(n) == orS(ObjectOf(n).plantId, KnownPlantId(ObjectOf(n).plantName))

\* C39: every emission into a room plant:<p> made for a bus message that names
\* its plant is into the room of the plant the message names; a message that
\* names a plant other than the known ones is emitted into no plant room.
C39_PlantRoomOfEvent ==
  \A k \in 1..Len(router.emitted) :
    (startsWith(router.emitted[k].target, "plant:") /\ NamesPlant(router.emitted[k].msg))
      => router.emitted[k].target = "plant:" \o NamedPlant(router.emitted[k].msg)

-----------------------------------------------------------------------------
(* alarmService: apiCallWithRetry *)

\* The largest maxRetries a call is made with.
MaxRetriesBound == 5

\* An error an api call rejects with: error.response?.status (0 when there is
\* no response), error.code and error.message.
ApiError(status, code, message) == [status |-> status, code |-> code, message |-> message]

NoError == ApiError(0, "", "")

\* Responses with a 5xx status, and failures without a response: a timeout with
\* an error code, and failures that only their message describes.
E500 == ApiError(500, "ERR_BAD_RESPONSE", "status 500")
E599 == ApiError(599, "ERR_BAD_RESPONSE", "status 599")
ECode == ApiError(0, "ECONNABORTED", "aborted")
EMsgTimeout == ApiError(0, "", "timeout of 10000ms exceeded")
EMsgNetwork == ApiError(0, "", "network down")

\* Responses with another status, and errors without a response, without a code
\* and with neither word in the message.
E404 == ApiError(404, "ERR_BAD_REQUEST", "status 404")
E600 == ApiError(600, "", "status 600")
EOther == ApiError(0, "", "Network Error")

ApiErrors == {E500, E599, ECode, EMsgTimeout, EMsgNetwork, E404, E600, EOther}

\* What one api call settles with.
ApiOutcome(ok, value, error) == [ok |-> ok, value |-> value, error |-> error]

ApiOutcomes ==
  {ApiOutcome(TRUE, "response", NoError)} \cup {ApiOutcome(FALSE, "", e) : e \in ApiErrors}

\* A delay that doubles without a limit.
backoffUncapped(attempt) == 1000 * 2^(attempt - 1)

\* Math.min(1000 * Math.pow(2, attempt-1), 8000)
backoffDelay(attempt) ==
  IF 1000 * 2^(attempt - 1) < 8000 THEN 1000 * 2^(attempt - 1) ELSE 8000

\* status >= 500 && status < 600
isServerError(error) == error.status >= 500 /\ error.status < 600

\* !status && (error.code || message includes 'timeout' || message includes 'network')
isNetworkError(error) ==
  /\ error.status = 0
  /\ \/ error.code # ""
     \/ includes(error.message, "timeout")
     \/ includes(error.message, "network")

\* apiCallWithRetry(apiCall, maxRetries) up to its first await: attempt 0 has
\* no delay and the api call is made.
apiCallWithRetry(w, maxRetries) ==
  [w EXCEPT !.retry = [NoRetry EXCEPT !.pc = "call", !.maxRetries = maxRetries]]

\* The timer of the delay before a retry has run: the api call is made.
retryDelayed(w) ==
  [w EXCEPT !.retry.waited = Append(@, backoffDelay(w.retry.attempt)),
            !.retry.pc = "call"]

\* The api call has settled.  A response is returned.  An error is kept as
\* lastError and rethrown when it is neither a server error nor a network error
\* or when this was the last attempt; otherwise the loop goes on with the next
\* attempt, which starts with its delay.
retrySettled(w, outcome) ==
  LET w1 == [w EXCEPT !.retry.calls = @ + 1, !.retry.outcomes = Append(@, outcome)]
  IN IF outcome.ok
     THEN [w1 EXCEPT !.retry.pc = "returned", !.retry.result = <<outcome.value>>]
     ELSE
       LET w2 == [w1 EXCEPT !.retry.lastError = <<outcome.error>>]
       IN IF ~isServerError(outcome.error) /\ ~isNetworkError(outcome.error)
          THEN [w2 EXCEPT !.retry.pc = "thrown"]
          ELSE IF w.retry.attempt = w.retry.maxRetries
          THEN [w2 EXCEPT !.retry.pc = "thrown"]
          ELSE [w2 EXCEPT !.retry.attempt = @ + 1, !.retry.pc = "wait"]

\* A call of apiCallWithRetry, when no other is in progress.
RetryStart(maxRetries) ==
  /\ retry.pc \in {"idle", "returned", "thrown"}
  /\ Step(apiCallWithRetry(World, maxRetries), "apiCallWithRetry", Plain)

\* The delay before a retry ends.
RetryDelayed ==
  /\ retry.pc = "wait"
  /\ Step(retryDelayed(World), "retryDelayed", Plain)

\* The api call settles.
RetrySettled(outcome) ==
  /\ retry.pc = "call"
  /\ Step(retrySettled(World, outcome), "retrySettled", Plain)

SettleSome == \E outcome \in ApiOutcomes : RetrySettled(outcome)

InitRetry == InitService

NextRetry ==
  \/ \E maxRetries \in 0..MaxRetriesBound : RetryStart(maxRetries)
  \/ RetryDelayed
  \/ SettleSome

\* Every timer runs and every api call settles.
SpecRetry == InitRetry /\ [][NextRetry]_vars /\ WF_vars(RetryDelayed) /\ WF_vars(SettleSome)

\* The errors after which the claim has the call retried.
RetriedErrors == {E500, E599, ECode, EMsgTimeout, EMsgNetwork}

\* The delay the claim gives for retry number k.
ClaimedDelay(k) == IF k = 1 THEN 1000 ELSE IF k = 2 THEN 2000 ELSE IF k = 3 THEN 4000 ELSE 8000

\* The last of the outcomes so far.
LastOutcome == retry.outcomes[Len(retry.outcomes)]

\* What holds at every point of a call of apiCallWithRetry.
RetryRules ==
  /\ retry.calls = Len(retry.outcomes)
  /\ retry.calls <= retry.maxRetries + 1
  /\ \A i \in 1..(Len(retry.outcomes) - 1) :
       ~retry.outcomes[i].ok /\ retry.outcomes[i].error \in RetriedErrors
  /\ retry.pc = "returned"
       <=> (retry.outcomes # <<>> /\ LastOutcome.ok)
  /\ retry.pc = "returned" => retry.result = <<LastOutcome.value>>
  /\ retry.pc = "thrown"
       <=> /\ retry.outcomes # <<>>
           /\ ~LastOutcome.ok
           /\ (LastOutcome.error \notin RetriedErrors \/ retry.calls = retry.maxRetries + 1)
  /\ retry.pc = "thrown" => retry.lastError = <<LastOutcome.error>>
  /\ Len(retry.waited) = (IF retry.pc = "call" THEN retry.calls
                          ELSE IF retry.calls = 0 THEN 0 ELSE retry.calls - 1)
  /\ \A k \in 1..Len(retry.waited) : retry.waited[k] = ClaimedDelay(k)

\* C40: a call of apiCallWithRetry ends, having made the api call at most
\* maxRetries + 1 times; it returns the first response, goes on only after a
\* 5xx response or a network error, rethrows any other error at once and the
\* last error after maxRetries + 1 calls, and waits 1000, 2000, 4000, 8000,
\* 8000, ... ms before the retries.
C40_RetryTerminates ==
  /\ []RetryRules
  /\ (retry.pc \in {"call", "wait"}) ~> (retry.pc \in {"returned", "thrown"})

\* C40, reached: a call with maxRetries = 5 has made all six api calls, each
\* ending in a server or network error, and has rethrown the last error.
C40_Witness ==
  /\ retry.pc = "thrown"
  /\ retry.maxRetries = 5
  /\ retry.calls = 6
  /\ retry.waited = <<1000, 2000, 4000, 8000, 8000>>
  /\ LastOutcome.error \in RetriedErrors

====
